---- MODULE Spec2Model ----
(***************************************************************************)
(* State-machine model of the yuzai bot host: the trigger engine and       *)
(* interaction sessions of Plugin (plugin.ts), the dispatch loop of Bot    *)
(* (bot.ts), the start and the shutdown of Client (client.ts), the install *)
(* status store of the dependency manager (dependency-manager.ts), the     *)
(* plugin loader (loader.ts) and importExtension (extensions/index.ts).    *)
(*                                                                         *)
(* The event loop is single-threaded: every action below is one            *)
(* run-to-completion slice of code between two suspension points.          *)
(***************************************************************************)
EXTENDS Integers, Sequences, FiniteSets, TLC

VARIABLES
  \* ---- Bot / Plugin -----------------------------------------------------
  pluginList,       \* Bot.pluginList: plugin ids in registration order
  messageTriggers,  \* Plugin._messageTriggers, per plugin
  interactions,     \* Plugin._interactions, per plugin: key -> session
  timers,           \* pending setTimeout callbacks of startInteract
  nextTimer,        \* next timer handle
  botPc,            \* position of the Bot.onMessage call in flight
  msg,              \* the message of the dispatch in flight
  pi,               \* index into pluginList of the plugin being offered
  ti,               \* index into _messageTriggers of the trigger in turn
  bg,               \* handlers invoked without await that still run
  outcome,          \* how the last Bot.onMessage call ended
  \* ---- history of the dispatch in flight (not program state) ------------
  offered,          \* plugins whose onMessage was called, in order
  evaluated,        \* <<plugin, trigger id>> whose handle() was called
  tested,           \* <<plugin, trigger id>> whose predicate was evaluated
  invoked,          \* <<plugin, trigger id>> whose handler was invoked
  snapshotBest,     \* per plugin: best matching trigger id at sort time
  hadSession,       \* plugins that had a session for the key on entry
  keyHolders,       \* plugins holding a session for the key when Bot.onMessage began
  delivered,        \* <<plugin, handler>> session deliveries
  returnedTrue,     \* <<plugin, trigger id>> whose handle() returned true
  \* ---- history of the timers (not program state) ------------------------
  firedTimers,      \* timer handles whose callback ran
  replacedTimers,   \* timer handles of sessions replaced by startInteract
  timeoutReplies,   \* one entry per timeout message: the timer, the session it removed
  finishedTimers,   \* timer handles of sessions removed by finishInteract
  \* ---- Client ------------------------------------------------------------
  exitHandlers,     \* Client._exitHandlers: number of registered handlers
  exiting,          \* Client._exiting
  exitArg,          \* the code argument captured by the first gracefulExit
  onExitState,      \* per exit-handler: the state of the promise of onExit()
  allSettledArmed,  \* the then-callback of Promise.allSettled is pending
  hardTimerArmed,   \* the wait(10000) timer is pending
  terminated,       \* process.exit has ended the process
  exitCode,         \* the code process.exit was called with
  \* ---- history of the shutdown (not program state) -----------------------
  gracefulExitCalls, \* calls of gracefulExit so far
  onExitCalls,      \* per exit-handler: calls of onExit() so far
  processExitCalls, \* calls of process.exit so far
  exitSnapshot,     \* handlers registered when gracefulExit first ran
  \* ---- dependency manager ------------------------------------------------
  installStatus,    \* the installStatus map: module path -> InstallStatus
  tasks,            \* the installDependencies calls in flight
  statusFile,      \* data/install_status.json on the disk
  writes,           \* the fs.writeFile calls of saveInstallStatus in flight
  slowDisk,         \* whether a writeFile may still run when the next slice starts
  waiter,           \* the waitForInstallation call in flight
  \* ---- history of the dependency manager (not program state) -------------
  fileAtRestart,    \* the state of the file when the process last died
  execs,            \* per installDependencies call: commands run so far
  prevCall,         \* the installDependencies call that ended last, if it succeeded
  \* ---- checkModuleStatus in isolation -----------------------------------
  checkInput,       \* what one checkModuleStatus call reads
  checkResult,      \* what it returned
  \* ---- loader -----------------------------------------------------------
  plugins,          \* the plugins map: plugin id -> plugin instance
  schedules,        \* the schedules map: its values
  watched,          \* plugin files with a file watcher
  pendingFiles,     \* files whose loadPlugin is awaiting its import
  \* ---- history of the loader (not program state) -------------------------
  lastLoad,         \* what the last loadPlugin call found, round by round
  timedOut,         \* files whose load timer fired during the last loadPlugins
  \* ---- connect and notice events ------------------------------------------
  connectTriggers,  \* Plugin._connectTriggers, per plugin
  noticeTriggers,   \* Plugin._noticeTriggers, per plugin
  connectRunning,   \* connect handlers invoked that have not settled
  \* ---- history of the events (not program state) --------------------------
  connects,         \* Bot.onConnect calls so far
  lastNotice,       \* what the last Bot.onNotice call found and invoked
  \* ---- Client.run ---------------------------------------------------------
  onReadyHandlers,  \* Client._onReadyHandlers: number of registered handlers
  run,              \* the Client.run call: its position and what it has done
  \* ---- extensions ---------------------------------------------------------
  moduleCache,      \* the moduleCache map: its keys
  importer,         \* the importExtension call in flight, and its history
  \* ---- setInstallStatus called on its own -----------------------------
  lastSet           \* the last call: its arguments and the map before it

pluginVars == <<pluginList, messageTriggers, interactions, timers, nextTimer,
                botPc, msg, pi, ti, bg, outcome>>
histVars == <<offered, evaluated, tested, invoked, snapshotBest, hadSession,
              keyHolders, delivered, returnedTrue>>
timerHist == <<firedTimers, replacedTimers, timeoutReplies, finishedTimers>>

clientVars == <<exitHandlers, exiting, exitArg, onExitState, allSettledArmed,
                hardTimerArmed, terminated, exitCode, gracefulExitCalls,
                onExitCalls, processExitCalls, exitSnapshot>>

storeVars == <<installStatus, tasks, statusFile, writes, slowDisk, waiter,
               fileAtRestart, execs, prevCall>>

checkVars == <<checkInput, checkResult>>

loaderVars == <<plugins, schedules, watched, pendingFiles, lastLoad, timedOut>>

eventVars == <<connectTriggers, noticeTriggers, connectRunning, connects, lastNotice>>

runVars == <<onReadyHandlers, run>>

importVars == <<moduleCache, importer>>

setVars == <<lastSet>>

extVars == <<eventVars, runVars, importVars, setVars>>

vars == <<pluginVars, histVars, timerHist, clientVars, storeVars, checkVars,
          loaderVars, extVars>>

-----------------------------------------------------------------------------
(* Bounds of the model *)

MaxPlugins == 2        \* plugins registered with the Bot (dispatcher runs)
MaxTriggers == 3       \* message triggers per plugin (priority runs)
MaxFlagTriggers == 2   \* message triggers per plugin (abort/wait runs)
MaxBotTriggers == 1    \* message triggers per plugin (dispatcher runs)
MaxSessionTriggers == 2 \* message triggers per plugin (session runs)
MaxPriority == 1       \* priorities are drawn from 0..MaxPriority
MaxTimers == 2         \* timer handles handed out by setTimeout
MaxSessionHandlers == 2 \* distinct session handlers

PluginIds == 1..MaxPlugins

-----------------------------------------------------------------------------
(* Messages and conversation keys *)

NoTarget == [type |-> "none", groupID |-> 0, guildID |-> 0, channelID |-> 0]
PersonTarget == [type |-> "person", groupID |-> 0, guildID |-> 0, channelID |-> 0]
GroupTarget == [type |-> "group", groupID |-> 1, guildID |-> 0, channelID |-> 0]
GuildTarget == [type |-> "guild", groupID |-> 0, guildID |-> 1, channelID |-> 1]

Texts == {"a", "b"}

Message(sender, target, text) ==
  [senderID |-> sender, target |-> target, text |-> text]

NoMessage == Message(0, NoTarget, "")

NoKey == [kind |-> "undefined", sender |-> 0, a |-> 0, b |-> 0]

\* (a key lookup that takes a message without target for a private one)
KeyWithoutTargetCheck(m) ==
  IF m.target.type \in {"group", "guild"}
  THEN [kind |-> m.target.type, sender |-> m.senderID,
        a |-> IF m.target.type = "group" THEN m.target.groupID ELSE m.target.guildID,
        b |-> m.target.channelID]
  ELSE [kind |-> "private", sender |-> m.senderID, a |-> 0, b |-> 0]

\* Plugin.getInteractKey
getInteractKey(m) ==
  CASE m.target.type = "person" ->
         [kind |-> "private", sender |-> m.senderID, a |-> 0, b |-> 0]
    [] m.target.type = "group" ->
         [kind |-> "group", sender |-> m.senderID, a |-> m.target.groupID, b |-> 0]
    [] m.target.type = "guild" ->
         [kind |-> "guild", sender |-> m.senderID, a |-> m.target.guildID,
          b |-> m.target.channelID]
    [] OTHER -> NoKey

AllTargets == {NoTarget, PersonTarget, GroupTarget, GuildTarget}
AllKeys == {getInteractKey(Message(1, t, "a")) : t \in AllTargets} \ {NoKey}

NoSession == [handler |-> 0, timeout |-> 0]

-----------------------------------------------------------------------------
(* Triggers *)

DefaultPriority == 0
DefaultAbort == TRUE
DefaultWait == TRUE

BoolArgs == {"omitted", "true", "false"}
ArgValue(arg) == arg = "true"
\* JavaScript truthiness of an optional boolean argument
Truthy(arg) == arg = "true"

\* Trigger.constructor and MessageTrigger.constructor: the fields a message
\* trigger holds after construction. abortArg and waitArg record what the
\* caller passed; _abort and _wait are what the object holds.
NewMessageTrigger(id, priorityArg, abortArg, waitArg, eventsArg, accepts) ==
  [id |-> id,
   priority |-> IF priorityArg # 0 THEN priorityArg ELSE DefaultPriority,
   abortArg |-> abortArg,
   waitArg |-> waitArg,
   abort |-> IF Truthy(abortArg) THEN ArgValue(abortArg) ELSE DefaultAbort,
   wait |-> IF Truthy(waitArg) THEN ArgValue(waitArg) ELSE DefaultWait,
   events |-> IF eventsArg = {} THEN {"message"} ELSE eventsArg,
   accepts |-> accepts]

\* (a scope filter that lets every event through)
ScopeIgnored(t, m) == TRUE

\* MessageTrigger.filterType
filterType(t, m) ==
  IF "message" \in t.events THEN TRUE
  ELSE CASE m.target.type = "person" -> "message.private" \in t.events
         [] m.target.type = "group" -> "message.group" \in t.events
         [] m.target.type = "guild" -> "message.guild" \in t.events
         [] OTHER -> FALSE

\* MessageTrigger.filter: the predicate, given by the texts it accepts
filter(t, m) == m.text \in t.accepts

Matches(t, m) == filterType(t, m) /\ filter(t, m)

\* Array.prototype.sort((a, b) => b.priority - a.priority): stable, descending
InsertByPriority(s, t) ==
  LET k == Cardinality({i \in 1..Len(s) : s[i].priority >= t.priority})
  IN SubSeq(s, 1, k) \o <<t>> \o SubSeq(s, k + 1, Len(s))

RECURSIVE SortLoop(_, _)
SortLoop(sorted, rest) ==
  IF rest = <<>> THEN sorted
  ELSE SortLoop(InsertByPriority(sorted, Head(rest)), Tail(rest))

\* (a dispatch that forgets to sort)
NoSort(s) == s

SortByPriority(s) == SortLoop(<<>>, s)

\* Plugin.priority of each plugin: the constructor keeps the default 0 of
\* _priority unless a priority is passed; plugin 1 passes none, plugin 2
\* passes 1
PluginPriority(p) == IF p = 1 THEN DefaultPriority ELSE p - 1

\* The matching trigger of highest priority, the first registered among
\* equals; 0 when none matches. Ids are registration numbers.
BestMatch(trigs, m) ==
  LET match == {i \in 1..Len(trigs) : Matches(trigs[i], m)}
      top == {i \in match : \A j \in match : trigs[j].priority <= trigs[i].priority}
  IN IF match = {} THEN 0
     ELSE LET first == CHOOSE i \in top : \A j \in top : trigs[i].id <= trigs[j].id
          IN trigs[first].id

-----------------------------------------------------------------------------
(* Plugin: registration, interaction sessions *)

\* Plugin.addTrigger, message-trigger branch: push a new MessageTrigger.
\* max bounds the list in the model only.
AddTrigger(p, priorityArg, abortArg, waitArg, eventsArg, accepts, max) ==
  /\ Len(messageTriggers[p]) < max
  /\ messageTriggers' =
       [messageTriggers EXCEPT ![p] =
          Append(@, NewMessageTrigger(Len(@) + 1, priorityArg, abortArg, waitArg,
                                      eventsArg, accepts))]
  /\ UNCHANGED <<pluginList, interactions, timers, nextTimer, botPc, msg, pi, ti,
                 bg, outcome, histVars, timerHist,
                 clientVars, storeVars, checkVars, loaderVars, extVars>>

\* Plugin.startInteract: interactions.set(key, {handler, timeout}); the timer
\* is created when timeoutSeconds is truthy. Nothing clears the timer of a
\* session that is already stored under the key.
StartInteract(p, m, h, timeoutSeconds) ==
  LET key == getInteractKey(m)
      old == interactions[p][key]
      withTimer == timeoutSeconds # 0
  IN /\ withTimer => nextTimer <= MaxTimers
     /\ IF key # NoKey
        THEN /\ interactions' =
                  [interactions EXCEPT ![p][key] =
                     [handler |-> h,
                      timeout |-> IF withTimer THEN nextTimer ELSE 0]]
             /\ timers' = IF withTimer
                          THEN timers \cup {[id |-> nextTimer, plugin |-> p, key |-> key]}
                          ELSE timers
             /\ nextTimer' = IF withTimer THEN nextTimer + 1 ELSE nextTimer
             /\ replacedTimers' = IF old # NoSession /\ old.timeout # 0
                                  THEN replacedTimers \cup {old.timeout}
                                  ELSE replacedTimers
        ELSE UNCHANGED <<interactions, timers, nextTimer, replacedTimers>>
     /\ UNCHANGED <<pluginList, messageTriggers, botPc, msg, pi, ti, bg, outcome,
                    histVars, firedTimers, timeoutReplies, finishedTimers,
                 clientVars, storeVars, checkVars, loaderVars, extVars>>

\* (a finishInteract that deletes the session and leaves its timer pending)
FinishInteractKeepsTimer(p, m) ==
  LET key == getInteractKey(m)
  IN /\ IF key # NoKey /\ interactions[p][key] # NoSession
        THEN /\ interactions' = [interactions EXCEPT ![p][key] = NoSession]
             /\ finishedTimers' = IF interactions[p][key].timeout # 0
                                  THEN finishedTimers \cup {interactions[p][key].timeout}
                                  ELSE finishedTimers
        ELSE UNCHANGED <<interactions, finishedTimers>>
     /\ UNCHANGED <<pluginList, messageTriggers, timers, nextTimer, botPc, msg, pi, ti,
                    bg, outcome, histVars, firedTimers, replacedTimers, timeoutReplies,
                 clientVars, storeVars, checkVars, loaderVars, extVars>>

\* Plugin.finishInteract: clearTimeout(interaction.timeout), delete the key
FinishInteract(p, m) ==
  LET key == getInteractKey(m)
  IN /\ IF key # NoKey /\ interactions[p][key] # NoSession
        THEN /\ timers' = {t \in timers : t.id # interactions[p][key].timeout}
             /\ interactions' = [interactions EXCEPT ![p][key] = NoSession]
             /\ finishedTimers' = IF interactions[p][key].timeout # 0
                                  THEN finishedTimers \cup {interactions[p][key].timeout}
                                  ELSE finishedTimers
        ELSE UNCHANGED <<interactions, timers, finishedTimers>>
     /\ UNCHANGED <<pluginList, messageTriggers, nextTimer, botPc, msg, pi, ti, bg,
                    outcome, histVars, firedTimers, replacedTimers, timeoutReplies,
                 clientVars, storeVars, checkVars, loaderVars, extVars>>

\* The setTimeout callback of startInteract: interactions.delete(key), then
\* event.reply(timeoutMessage). The callback holds the key, not the session.
TimerFire(t) ==
  /\ t \in timers
  /\ timers' = timers \ {t}
  /\ interactions' = [interactions EXCEPT ![t.plugin][t.key] = NoSession]
  /\ firedTimers' = firedTimers \cup {t.id}
  /\ timeoutReplies' = Append(timeoutReplies,
                              [timer |-> t.id, removed |-> interactions[t.plugin][t.key]])
  /\ UNCHANGED <<pluginList, messageTriggers, nextTimer, botPc, msg, pi, ti, bg,
                 outcome, histVars, replacedTimers, finishedTimers,
                 clientVars, storeVars, checkVars, loaderVars, extVars>>

-----------------------------------------------------------------------------
(* Bot.onMessage and Plugin.onMessage *)

\* (a dispatch that never looks at the sessions)
SkipInteraction(p, m) == FALSE

\* Plugin.onMessage, lines 298-300: interactKey && interactions.has(interactKey)

HasInteraction(p, m) ==
  getInteractKey(m) # NoKey /\ interactions[p][getInteractKey(m)] # NoSession

\* Bot.onMessage is called by an adapter: a new MessageEvent, the loop starts
BotOnMessage(m) ==
  /\ botPc \in {"idle", "done"}
  /\ msg' = m
  /\ pi' = 1
  /\ ti' = 1
  /\ botPc' = IF pluginList = <<>> THEN "done" ELSE "plugin"
  /\ outcome' = IF pluginList = <<>> THEN "unhandled" ELSE "pending"
  /\ offered' = <<>>
  /\ evaluated' = <<>>
  /\ tested' = <<>>
  /\ invoked' = <<>>
  /\ snapshotBest' = [p \in PluginIds |-> -1]
  /\ hadSession' = {}
  /\ keyHolders' = {p \in PluginIds : HasInteraction(p, m)}
  /\ delivered' = <<>>
  /\ returnedTrue' = <<>>
  /\ UNCHANGED <<pluginList, messageTriggers, interactions, timers, nextTimer, bg,
                 timerHist,
                 clientVars, storeVars, checkVars, loaderVars, extVars>>

\* Plugin.onMessage up to its first await: the session short-circuit, or the
\* in-place sort and the start of the trigger loop
PluginOnMessage ==
  /\ botPc = "plugin"
  /\ LET p == pluginList[pi]
         key == getInteractKey(msg)
     IN /\ offered' = Append(offered, p)
        /\ hadSession' = IF key # NoKey /\ interactions[p][key] # NoSession
                         THEN hadSession \cup {p} ELSE hadSession
        /\ IF HasInteraction(p, msg)
           THEN /\ bg' = bg \cup {<<"session", p, interactions[p][key].handler>>}
                /\ delivered' = Append(delivered, <<p, interactions[p][key].handler>>)
                /\ botPc' = "done"
                /\ outcome' = "handled"
                /\ UNCHANGED <<messageTriggers, snapshotBest, ti>>
           ELSE /\ messageTriggers' =
                     [messageTriggers EXCEPT ![p] = SortByPriority(@)]
                /\ snapshotBest' =
                     [snapshotBest EXCEPT ![p] = BestMatch(messageTriggers[p], msg)]
                /\ ti' = 1
                /\ botPc' = "trigger"
                /\ UNCHANGED <<bg, delivered, outcome>>
  /\ UNCHANGED <<pluginList, interactions, timers, nextTimer, msg, pi, evaluated,
                 keyHolders, tested, invoked, returnedTrue, timerHist,
                 clientVars, storeVars, checkVars, loaderVars, extVars>>

\* The end of one plugin's trigger loop with no aborting match: Plugin.onMessage
\* returns false and Bot.onMessage goes on to the next plugin, or returns
PluginReturnsFalse ==
  /\ ti' = 1
  /\ IF pi < Len(pluginList)
     THEN /\ pi' = pi + 1
          /\ botPc' = "plugin"
          /\ UNCHANGED outcome
     ELSE /\ botPc' = "done"
          /\ outcome' = "unhandled"
          /\ UNCHANGED pi

\* (a loop that records the result and goes on to the next plugin)
PluginReturnsTrueAndGoesOn(p, t) ==
  /\ returnedTrue' = <<p, t.id>>
  /\ PluginReturnsFalse

\* trigger.handle() returned true: Plugin.onMessage returns true, Bot.onMessage returns
PluginReturnsTrue(p, t) ==
  /\ returnedTrue' = <<p, t.id>>
  /\ botPc' = "done"
  /\ outcome' = "handled"
  /\ UNCHANGED <<pi, ti>>

\* One turn of the for-of loop of Plugin.onMessage: MessageTrigger.handle up
\* to the handler call
TriggerHandle ==
  /\ botPc = "trigger"
  /\ LET p == pluginList[pi]
         trigs == messageTriggers[p]
     IN IF ti > Len(trigs)
        THEN /\ PluginReturnsFalse
             /\ UNCHANGED <<evaluated, tested, invoked, returnedTrue, bg>>
        ELSE LET t == trigs[ti]
             IN /\ evaluated' = Append(evaluated, <<p, t.id>>)
                /\ tested' = IF filterType(t, msg)
                              THEN Append(tested, <<p, t.id>>) ELSE tested
                /\ IF filterType(t, msg) /\ filter(t, msg)
                   THEN /\ invoked' = Append(invoked, <<p, t.id>>)
                        /\ IF t.wait
                           THEN /\ botPc' = "awaiting"
                                /\ UNCHANGED <<pi, ti, outcome, returnedTrue, bg>>
                           ELSE /\ bg' = bg \cup {<<"trigger", p, t.id>>}
                                /\ IF t.abort
                                   THEN PluginReturnsTrue(p, t)
                                   ELSE /\ ti' = ti + 1
                                        /\ UNCHANGED <<pi, botPc, outcome, returnedTrue>>
                   ELSE /\ ti' = ti + 1
                        /\ UNCHANGED <<pi, botPc, outcome, invoked, returnedTrue, bg>>
  /\ UNCHANGED <<pluginList, messageTriggers, interactions, timers, nextTimer, msg,
                 offered, snapshotBest, hadSession, keyHolders, delivered, timerHist,
                 clientVars, storeVars, checkVars, loaderVars, extVars>>

\* The awaited handler fulfils: handle() returns _abort
HandlerFulfil ==
  /\ botPc = "awaiting"
  /\ LET p == pluginList[pi]
         t == messageTriggers[p][ti]
     IN IF t.abort
        THEN PluginReturnsTrue(p, t)
        ELSE /\ ti' = ti + 1
             /\ botPc' = "trigger"
             /\ UNCHANGED <<pi, outcome, returnedTrue>>
  /\ UNCHANGED <<pluginList, messageTriggers, interactions, timers, nextTimer, msg,
                 bg, offered, evaluated, tested, invoked, snapshotBest, hadSession,
                 keyHolders,
                 delivered, timerHist,
                 clientVars, storeVars, checkVars, loaderVars, extVars>>

\* The awaited handler rejects: nothing between the handler and the adapter
\* catches, so handle(), Plugin.onMessage and Bot.onMessage reject in turn
HandlerReject ==
  /\ botPc = "awaiting"
  /\ botPc' = "done"
  /\ outcome' = "raised"
  /\ UNCHANGED <<pluginList, messageTriggers, interactions, timers, nextTimer, msg,
                 pi, ti, bg, histVars, timerHist,
                 clientVars, storeVars, checkVars, loaderVars, extVars>>

\* A handler that was not awaited settles
BackgroundSettle(h) ==
  /\ h \in bg
  /\ bg' = bg \ {h}
  /\ UNCHANGED <<pluginList, messageTriggers, interactions, timers, nextTimer, botPc,
                 msg, pi, ti, outcome, histVars, timerHist,
                 clientVars, storeVars, checkVars, loaderVars, extVars>>

-----------------------------------------------------------------------------
(* Client: exit handlers and gracefulExit *)

MaxExitHandlers == 2   \* exit handlers registered
MaxExitCalls == 3      \* calls of gracefulExit

ExitHandlerIds == 1..MaxExitHandlers
ExitArgs == {"undefined", "0", "1"}

\* process.exit(code || 0)
ExitCodeOf(arg) == IF arg \in {"undefined", "0"} THEN "0" ELSE arg

InitClient ==
  /\ exitHandlers = 0
  /\ exiting = FALSE
  /\ exitArg = "undefined"
  /\ onExitState = [h \in ExitHandlerIds |-> "idle"]
  /\ allSettledArmed = FALSE
  /\ hardTimerArmed = FALSE
  /\ terminated = FALSE
  /\ exitCode = "none"
  /\ gracefulExitCalls = 0
  /\ onExitCalls = [h \in ExitHandlerIds |-> 0]
  /\ processExitCalls = 0
  /\ exitSnapshot = -1

\* Client.registerExitHandler
RegisterExitHandler ==
  /\ ~terminated
  /\ exitHandlers < MaxExitHandlers
  /\ exitHandlers' = exitHandlers + 1
  /\ UNCHANGED <<exiting, exitArg, onExitState, allSettledArmed, hardTimerArmed,
                 terminated, exitCode, gracefulExitCalls, onExitCalls,
                 processExitCalls, exitSnapshot>>
  /\ UNCHANGED <<pluginVars, histVars, timerHist, storeVars, checkVars, loaderVars, extVars>>

\* (a gracefulExit without the _exiting guard)
NeverExiting == FALSE

\* Client.gracefulExit, line 122: if (this._exiting) return
AlreadyExiting == exiting

\* Client.gracefulExit: the first call sets _exiting, calls every onExit(),
\* arms the allSettled callback and the 10 s timer; later calls return
GracefulExitCall(code) ==
  /\ ~terminated
  /\ gracefulExitCalls < MaxExitCalls
  /\ gracefulExitCalls' = gracefulExitCalls + 1
  /\ IF AlreadyExiting
     THEN UNCHANGED <<exiting, exitArg, onExitState, allSettledArmed, hardTimerArmed,
                      onExitCalls, exitSnapshot>>
     ELSE /\ exiting' = TRUE
          /\ exitArg' = code
          /\ onExitState' = [h \in ExitHandlerIds |->
                               IF h <= exitHandlers THEN "pending" ELSE onExitState[h]]
          /\ onExitCalls' = [h \in ExitHandlerIds |->
                               IF h <= exitHandlers THEN onExitCalls[h] + 1
                               ELSE onExitCalls[h]]
          /\ allSettledArmed' = TRUE
          /\ hardTimerArmed' = TRUE
          /\ exitSnapshot' = exitHandlers
  /\ UNCHANGED <<exitHandlers, terminated, exitCode, processExitCalls>>

\* gracefulExit called on its own
GracefulExit(code) ==
  /\ GracefulExitCall(code)
  /\ UNCHANGED <<pluginVars, histVars, timerHist, storeVars, checkVars, loaderVars, extVars>>

\* The promise of one onExit() settles
ExitHandlerSettles(h, result) ==
  /\ ~terminated
  /\ onExitState[h] = "pending"
  /\ onExitState' = [onExitState EXCEPT ![h] = result]
  /\ UNCHANGED <<exitHandlers, exiting, exitArg, allSettledArmed, hardTimerArmed,
                 terminated, exitCode, gracefulExitCalls, onExitCalls,
                 processExitCalls, exitSnapshot>>
  /\ UNCHANGED <<pluginVars, histVars, timerHist, storeVars, checkVars, loaderVars, extVars>>

\* The then-callback of Promise.allSettled: process.exit(code || 0)
AllSettledThen ==
  /\ ~terminated
  /\ allSettledArmed
  /\ \A h \in ExitHandlerIds :
       h <= exitSnapshot => onExitState[h] \in {"fulfilled", "rejected"}
  /\ allSettledArmed' = FALSE
  /\ terminated' = TRUE
  /\ exitCode' = ExitCodeOf(exitArg)
  /\ processExitCalls' = processExitCalls + 1
  /\ UNCHANGED <<exitHandlers, exiting, exitArg, onExitState, hardTimerArmed,
                 gracefulExitCalls, onExitCalls, exitSnapshot>>
  /\ UNCHANGED <<pluginVars, histVars, timerHist, storeVars, checkVars, loaderVars, extVars>>

\* (a timer callback that stops the keep-alive interval and does not exit)
HardTimeoutWithoutExit ==
  /\ ~terminated
  /\ hardTimerArmed
  /\ hardTimerArmed' = FALSE
  /\ UNCHANGED <<exitHandlers, exiting, exitArg, onExitState, allSettledArmed,
                 terminated, exitCode, gracefulExitCalls, onExitCalls,
                 processExitCalls, exitSnapshot>>
  /\ UNCHANGED <<pluginVars, histVars, timerHist, storeVars, checkVars, loaderVars, extVars>>

\* The callback of utils.wait(10000): clearInterval, process.exit(code || 0)
HardTimeout ==
  /\ ~terminated
  /\ hardTimerArmed
  /\ hardTimerArmed' = FALSE
  /\ terminated' = TRUE
  /\ exitCode' = ExitCodeOf(exitArg)
  /\ processExitCalls' = processExitCalls + 1
  /\ UNCHANGED <<exitHandlers, exiting, exitArg, onExitState, allSettledArmed,
                 gracefulExitCalls, onExitCalls, exitSnapshot>>
  /\ UNCHANGED <<pluginVars, histVars, timerHist, storeVars, checkVars, loaderVars, extVars>>

-----------------------------------------------------------------------------
(* Dependency manager: the install-status store and installDependencies *)

MaxModules == 1        \* module directories
MaxTasks == 2          \* installDependencies calls in flight at once
MaxWrites == 2         \* writeFile calls of saveInstallStatus in flight at once
MaxRetries == 3        \* INSTALL_RETRY_CONFIG.maxRetries
MaxWait == 30000       \* waitForInstallation: maxWait, in milliseconds
CheckInterval == 100   \* waitForInstallation: checkInterval, in milliseconds

Modules == 1..MaxModules
TaskIds == 1..MaxTasks
Hashes == {"h1", "h2"}
Versions == {"v1", "v2"}
Now == 1
UndefinedTime == -1

\* getModuleInfo: what package.json declares, or the fallback of its catch
ModuleInfos ==
  [needBuild : BOOLEAN, buildScript : {"build"}, version : Versions,
   dependenciesHash : Hashes]
    \cup {[needBuild |-> FALSE, buildScript |-> "build", version |-> "0.0.0",
           dependenciesHash |-> ""]}

NoInfo == [needBuild |-> FALSE, buildScript |-> "", version |-> "", dependenciesHash |-> ""]

\* (an update that stores the given object in place of the record)
ReplaceRecord(old, patch) == patch

\* { ...old, ...status }: the fields of the patch win, the others are kept
Merge(old, patch) ==
  [f \in DOMAIN old \cup DOMAIN patch |-> IF f \in DOMAIN patch THEN patch[f] ELSE old[f]]

\* setInstallStatus: installStatus.set(moduleDir, {...installStatus.get(moduleDir), ...status})
SetInstallStatus(store, m, patch) ==
  [k \in DOMAIN store \cup {m} |->
     IF k = m THEN (IF m \in DOMAIN store THEN Merge(store[m], patch) ELSE patch)
     ELSE store[k]]

\* A field of a status object; undefined when the object lacks it
Field(status, f) == IF f \in DOMAIN status THEN status[f] ELSE "undefined"

\* The status objects the code writes
InstallStartStatus == [installing |-> TRUE, installed |-> FALSE, error |-> FALSE]

\* (a success record that leaves the error flag as it was)
InstallSuccessStatusKeepingError(info) ==
  [installed |-> TRUE, installing |-> FALSE,
   lastInstallTime |-> Now, dependenciesHash |-> info.dependenciesHash]

InstallSuccessStatus(info) ==
  [installed |-> TRUE, installing |-> FALSE, error |-> FALSE,
   lastInstallTime |-> Now, dependenciesHash |-> info.dependenciesHash]

\* (a failure record that keeps the stored hash and install time)
InstallFailureStatusKeepingHash ==
  [installed |-> FALSE, installing |-> FALSE, error |-> TRUE]

InstallFailureStatus ==
  [installed |-> FALSE, installing |-> FALSE, error |-> TRUE,
   lastInstallTime |-> UndefinedTime, dependenciesHash |-> "undefined"]

\* (a build that marks the module installing and leaves installed as it was)
BuildStartStatusPartial(info) ==
  [installing |-> TRUE, error |-> FALSE, needBuild |-> TRUE,
   buildScript |-> info.buildScript]

BuildStartStatus(info) ==
  [installing |-> TRUE, installed |-> FALSE, error |-> FALSE, needBuild |-> TRUE,
   buildScript |-> info.buildScript]

BuildSuccessStatus(info) ==
  [installing |-> FALSE, installed |-> TRUE, error |-> FALSE, version |-> info.version]

\* (a build failure that records the error and nothing else)
BuildFailureStatusErrorOnly == [error |-> TRUE, version |-> "undefined"]

BuildFailureStatus ==
  [installing |-> FALSE, installed |-> FALSE, error |-> TRUE, version |-> "undefined"]

ClearedStatus == [installing |-> FALSE, installed |-> FALSE, error |-> FALSE]

EmptyStore == [m \in {} |-> ClearedStatus]

\* (a decision table that rebuilds every module that declares a build step)
CheckModuleStatusVersionBlind(hasStatus, status, info, nodeModulesOk) ==
  IF ~hasStatus \/ ~status["installed"] \/ status["error"] \/ ~nodeModulesOk
    THEN [needInstall |-> TRUE, needBuild |-> FALSE]
  ELSE [needInstall |-> FALSE, needBuild |-> info.needBuild]

\* (a decision table without the row of the dependency hash)
CheckModuleStatusWithoutHash(hasStatus, status, info, nodeModulesOk) ==
  IF ~hasStatus \/ ~status["installed"] \/ status["error"] \/ ~nodeModulesOk
    THEN [needInstall |-> TRUE, needBuild |-> FALSE]
  ELSE [needInstall |-> FALSE,
        needBuild |-> info.needBuild /\ Field(status, "version") # info.version]

\* checkModuleStatus: the ordered decision table. hasStatus and status are
\* what getInstallStatus returned, info what getModuleInfo returned,
\* nodeModulesOk whether node_modules exists and is not empty.
CheckModuleStatus(hasStatus, status, info, nodeModulesOk) ==
  IF ~hasStatus \/ ~status["installed"]
    THEN [needInstall |-> TRUE, needBuild |-> FALSE]
  ELSE IF status["error"]
    THEN [needInstall |-> TRUE, needBuild |-> FALSE]
  ELSE IF info.dependenciesHash # "" /\ Field(status, "dependenciesHash") # info.dependenciesHash
    THEN [needInstall |-> TRUE, needBuild |-> FALSE]
  ELSE IF ~nodeModulesOk
    THEN [needInstall |-> TRUE, needBuild |-> FALSE]
  ELSE [needInstall |-> FALSE,
        needBuild |-> info.needBuild /\ Field(status, "version") # info.version]

-----------------------------------------------------------------------------
(* The persisted document: saveInstallStatus and loadInstallStatus *)

BooleanFields == {"installing", "installed", "error", "needBuild"}
NumberFields == {"lastInstallTime"}
StringFields == {"dependenciesHash", "buildScript", "version"}
TimeValues == 0..Now

\* Whether the value a status holds for a field is undefined
IsUndefined(f, v) ==
  IF f \in NumberFields THEN v = UndefinedTime
  ELSE IF f \in StringFields THEN v = "undefined"
  ELSE FALSE

\* JSON.stringify of one value: a token with its syntactic type and its text
StringifyValue(f, v) ==
  IF f \in BooleanFields
    THEN [type |-> "boolean", text |-> IF v THEN "true" ELSE "false"]
  ELSE IF f \in NumberFields
    THEN [type |-> "number", text |-> ToString(v)]
  ELSE [type |-> "string", text |-> v]

\* (a serializer that leaves the version out of the document)
JSONStringifyWithoutVersion(store) ==
  [m \in DOMAIN store |->
     [f \in {g \in DOMAIN store[m] : g # "version"} |->
        StringifyValue(f, store[m][f])]]

\* JSON.stringify(statusObj): a property whose value is undefined is left out
JSONStringify(store) ==
  [m \in DOMAIN store |->
     [f \in {g \in DOMAIN store[m] : ~IsUndefined(g, store[m][g])} |->
        StringifyValue(f, store[m][f])]]

\* JSON.parse of one token
ParseValue(tok) ==
  IF tok.type = "boolean" THEN tok.text = "true"
  ELSE IF tok.type = "number" THEN CHOOSE n \in TimeValues : ToString(n) = tok.text
  ELSE tok.text

\* JSON.parse(data) and the loop that fills the map
JSONParse(doc) ==
  [m \in DOMAIN doc |-> [f \in DOMAIN doc[m] |-> ParseValue(doc[m][f])]]

\* The status file: missing, a complete document, or opened for writing and
\* not yet written (truncated). snapshot is the store the document was made
\* from (not program state).
NoFile == [state |-> "missing", text |-> EmptyStore, snapshot |-> EmptyStore]
TruncatedFile == [state |-> "truncated", text |-> EmptyStore, snapshot |-> EmptyStore]
CompleteFile(w) == [state |-> "complete", text |-> w.text, snapshot |-> w.snapshot]

\* saveInstallStatus, called without await: the document is built at once,
\* fs.writeFile runs in the background (on a fast disk it is done before
\* anything else runs)
SaveInstallStatus(store) ==
  LET w == [text |-> JSONStringify(store), snapshot |-> store, opened |-> FALSE]
  IN IF slowDisk /\ Cardinality(writes) < MaxWrites
     THEN /\ writes' = writes \cup {w}
          /\ UNCHANGED statusFile
     ELSE /\ statusFile' = CompleteFile(w)
          /\ UNCHANGED writes

\* setInstallStatus: the merge and the save
SetAndSave(m, patch) ==
  LET store == SetInstallStatus(installStatus, m, patch)
  IN /\ installStatus' = store
     /\ SaveInstallStatus(store)

\* loadInstallStatus on a fresh process: a missing file leaves the map empty,
\* a document that does not parse is caught and leaves the map empty
LoadInstallStatus(f) ==
  IF f.state = "complete" THEN JSONParse(f.text) ELSE EmptyStore

-----------------------------------------------------------------------------
(* installDependencies *)

\* The locals of one installDependencies call. needInstall and needBuild are
\* kept only through the forced pass, the one place that reads them later.
IdleTask ==
  [pc |-> "idle", module |-> 0, info |-> NoInfo,
   needInstall |-> FALSE, needBuild |-> FALSE, phase |-> "none", retries |-> 0]

\* History of one call (not program state): install commands run by the
\* runInstall in progress, whether the call has run any command, whether it
\* repeats a successful call with nothing changed in between, whether
\* another call or a reset of the status ran beside it, whether it was
\* called with forceReinstall, and its calls of runInstall and runBuild
NoExecs ==
  [install |-> 0, ran |-> FALSE, repeat |-> FALSE, disturbed |-> FALSE,
   forced |-> FALSE, runInstalls |-> 0, runBuilds |-> 0]

NoCall == [ok |-> FALSE, module |-> 0, info |-> NoInfo]

IdleWaiter ==
  [pc |-> "idle", module |-> 0, status |-> ClearedStatus, waited |-> 0,
   changed |-> FALSE]

InitStoreOn(slow) ==
  /\ installStatus = EmptyStore
  /\ tasks = [t \in TaskIds |-> IdleTask]
  /\ statusFile = NoFile
  /\ writes = {}
  /\ slowDisk = slow
  /\ fileAtRestart = "none"
  /\ waiter = IdleWaiter
  /\ execs = [t \in TaskIds |-> NoExecs]
  /\ prevCall = NoCall

InitStore == InitStoreOn(FALSE)

\* Every call in flight is marked as having had company
Disturb(e) ==
  [u \in TaskIds |-> IF tasks[u].pc = "idle" THEN e[u]
                     ELSE [e[u] EXCEPT !.disturbed = TRUE]]

\* installDependencies up to the end of checkModuleStatus, and the branch it
\* takes: the forced pass, nothing to do, the build alone (runBuild starts at
\* once), or the normal pass
InstallDependenciesCall(t, m, force, info, nodeModulesOk) ==
  /\ tasks[t].pc = "idle"
  /\ LET check == CheckModuleStatus(m \in DOMAIN installStatus,
                                    IF m \in DOMAIN installStatus
                                    THEN installStatus[m] ELSE ClearedStatus,
                                    info, nodeModulesOk)
         base == [IdleTask EXCEPT !.module = m, !.info = info]
     IN tasks' = [tasks EXCEPT ![t] =
          IF force
            THEN [base EXCEPT !.pc = "checked", !.phase = "force",
                              !.needInstall = check.needInstall,
                              !.needBuild = check.needBuild]
          ELSE IF ~check.needInstall /\ ~check.needBuild
            THEN [base EXCEPT !.pc = "done"]
          ELSE IF ~check.needInstall /\ check.needBuild
            THEN [base EXCEPT !.pc = "checked", !.phase = "build"]
          ELSE [base EXCEPT !.pc = "checked", !.phase = "normal"]]
  /\ execs' = [Disturb(execs) EXCEPT ![t] =
       [NoExecs EXCEPT
          !.repeat = /\ ~force
                     /\ nodeModulesOk
                     /\ prevCall = [ok |-> TRUE, module |-> m, info |-> info],
          !.disturbed = \E u \in TaskIds : tasks[u].pc # "idle",
          !.forced = force]]
  /\ prevCall' = NoCall
  /\ UNCHANGED <<installStatus, statusFile, writes, slowDisk, fileAtRestart, waiter>>

\* installDependencies called on its own
InstallDependencies(t, m, force, info, nodeModulesOk) ==
  /\ InstallDependenciesCall(t, m, force, info, nodeModulesOk)
  /\ UNCHANGED <<pluginVars, histVars, timerHist, clientVars, checkVars, loaderVars, extVars>>

\* runBuild up to its await: the status is set, the build script runs
RunBuildStart(t) ==
  /\ SetAndSave(tasks[t].module, BuildStartStatus(tasks[t].info))
  /\ tasks' = [tasks EXCEPT ![t].pc = "build_exec"]
  /\ execs' = [execs EXCEPT ![t].ran = TRUE, ![t].runBuilds = @ + 1]

\* What installDependencies does when a pass has ended without an error:
\* after the forced pass it falls through to the ordinary checks
PassEnds(t) ==
  tasks' = [tasks EXCEPT ![t] =
    IF @.phase = "force" /\ (@.needInstall \/ @.needBuild)
    THEN [@ EXCEPT !.pc = "install_start", !.phase = "normal",
                   !.needInstall = FALSE, !.needBuild = FALSE]
    ELSE [@ EXCEPT !.pc = "done", !.needInstall = FALSE, !.needBuild = FALSE]]

\* The continuation of installDependencies after checkModuleStatus resolves
AfterCheck(t) ==
  /\ tasks[t].pc = "checked"
  /\ IF tasks[t].phase = "build"
     THEN RunBuildStart(t)
     ELSE /\ tasks' = [tasks EXCEPT ![t].pc = "install_start"]
          /\ UNCHANGED <<installStatus, statusFile, writes, execs>>
  /\ UNCHANGED <<slowDisk, fileAtRestart, waiter, prevCall>>
  /\ UNCHANGED <<pluginVars, histVars, timerHist, clientVars, checkVars, loaderVars, extVars>>

\* runInstall after getPackageManagerCommand: a module without a status is
\* marked installing; the first install command runs
RunInstallStart(t) ==
  /\ tasks[t].pc = "install_start"
  /\ IF tasks[t].module \notin DOMAIN installStatus
     THEN SetAndSave(tasks[t].module, InstallStartStatus)
     ELSE UNCHANGED <<installStatus, statusFile, writes>>
  /\ tasks' = [tasks EXCEPT ![t].pc = "install_exec", ![t].retries = 0]
  /\ execs' = [execs EXCEPT ![t].install = 1, ![t].ran = TRUE,
                            ![t].runInstalls = @ + 1]
  /\ UNCHANGED <<slowDisk, fileAtRestart, waiter, prevCall>>
  /\ UNCHANGED <<pluginVars, histVars, timerHist, clientVars, checkVars, loaderVars, extVars>>

\* The install command succeeds: runInstall records the success
InstallSucceeds(t) ==
  /\ tasks[t].pc = "install_exec"
  /\ SetAndSave(tasks[t].module, InstallSuccessStatus(tasks[t].info))
  /\ tasks' = [tasks EXCEPT ![t].pc = "installed", ![t].retries = 0]
  /\ UNCHANGED <<slowDisk, fileAtRestart, waiter, prevCall, execs>>
  /\ UNCHANGED <<pluginVars, histVars, timerHist, clientVars, checkVars, loaderVars, extVars>>

\* The install command fails: another attempt after the delay, or, with the
\* retries used up, the catch block records the error and rethrows
InstallFails(t) ==
  /\ tasks[t].pc = "install_exec"
  /\ IF tasks[t].retries + 1 < MaxRetries
     THEN /\ tasks' = [tasks EXCEPT ![t].retries = @ + 1]
          /\ execs' = [execs EXCEPT ![t].install = @ + 1]
          /\ UNCHANGED <<installStatus, statusFile, writes>>
     ELSE /\ SetAndSave(tasks[t].module, InstallFailureStatus)
          /\ tasks' = [tasks EXCEPT ![t].pc = "failed", ![t].retries = @ + 1]
          /\ UNCHANGED execs
  /\ UNCHANGED <<slowDisk, fileAtRestart, waiter, prevCall>>
  /\ UNCHANGED <<pluginVars, histVars, timerHist, clientVars, checkVars, loaderVars, extVars>>

\* installDependencies after runInstall resolved: runBuild if the module
\* declares a build, else the pass has ended
AfterInstall(t) ==
  /\ tasks[t].pc = "installed"
  /\ IF tasks[t].info.needBuild
     THEN RunBuildStart(t)
     ELSE /\ PassEnds(t)
          /\ UNCHANGED <<installStatus, statusFile, writes, execs>>
  /\ UNCHANGED <<slowDisk, fileAtRestart, waiter, prevCall>>
  /\ UNCHANGED <<pluginVars, histVars, timerHist, clientVars, checkVars, loaderVars, extVars>>

\* The build script succeeds: runBuild records it, the pass has ended
BuildSucceeds(t) ==
  /\ tasks[t].pc = "build_exec"
  /\ SetAndSave(tasks[t].module, BuildSuccessStatus(tasks[t].info))
  /\ PassEnds(t)
  /\ UNCHANGED <<slowDisk, fileAtRestart, waiter, prevCall, execs>>
  /\ UNCHANGED <<pluginVars, histVars, timerHist, clientVars, checkVars, loaderVars, extVars>>

\* The build script fails: the catch block records the error and rethrows
BuildFails(t) ==
  /\ tasks[t].pc = "build_exec"
  /\ SetAndSave(tasks[t].module, BuildFailureStatus)
  /\ tasks' = [tasks EXCEPT ![t].pc = "failed"]
  /\ UNCHANGED <<slowDisk, fileAtRestart, waiter, prevCall, execs>>
  /\ UNCHANGED <<pluginVars, histVars, timerHist, clientVars, checkVars, loaderVars, extVars>>

\* The caller of installDependencies has its result or its error
InstallDependenciesReturns(t) ==
  /\ tasks[t].pc \in {"done", "failed"}
  /\ tasks' = [tasks EXCEPT ![t] = IdleTask]
  /\ execs' = [execs EXCEPT ![t] = NoExecs]
  /\ prevCall' =
       IF tasks[t].pc = "done" /\ ~execs[t].disturbed
       THEN [ok |-> TRUE, module |-> tasks[t].module, info |-> tasks[t].info]
       ELSE NoCall
  /\ UNCHANGED <<installStatus, statusFile, writes, slowDisk, fileAtRestart, waiter>>

\* The call was made on its own
InstallDependenciesEnds(t) ==
  /\ InstallDependenciesReturns(t)
  /\ UNCHANGED <<pluginVars, histVars, timerHist, clientVars, checkVars, loaderVars, extVars>>

\* clearExtensionInstallStatus: a stored status is reset, none is created
ClearExtensionInstallStatus(m) ==
  /\ m \in DOMAIN installStatus
  /\ SetAndSave(m, ClearedStatus)
  /\ prevCall' = NoCall
  /\ execs' = Disturb(execs)
  /\ UNCHANGED <<tasks, slowDisk, fileAtRestart, waiter>>
  /\ UNCHANGED <<pluginVars, histVars, timerHist, clientVars, checkVars, loaderVars, extVars>>

-----------------------------------------------------------------------------
(* waitForInstallation *)

\* (a wait that reports nothing when the time is up)
NeverTimedOut(status) == FALSE

\* The test after the loop: if (status.installing) throw
TimedOut(status) == status["installing"]

\* waitForInstallation up to its first await: the status object is read from
\* the map once; without a status, or with one that is not installing, the
\* call returns at once
WaitForInstallationCall(m) ==
  /\ waiter.pc \in {"idle", "returned", "timeout"}
  /\ waiter' =
       IF m \notin DOMAIN installStatus \/ ~installStatus[m]["installing"]
       THEN [IdleWaiter EXCEPT !.pc = "returned", !.module = m]
       ELSE [IdleWaiter EXCEPT !.pc = "polling", !.module = m,
                               !.status = installStatus[m]]
  /\ UNCHANGED <<installStatus, tasks, statusFile, writes, slowDisk, fileAtRestart,
                 execs, prevCall>>

\* waitForInstallation called on its own
WaitForInstallation(m) ==
  /\ WaitForInstallationCall(m)
  /\ UNCHANGED <<pluginVars, histVars, timerHist, clientVars, checkVars, loaderVars, extVars>>

\* One round of the loop: the timer of checkInterval fires, waited grows and
\* the loop condition is tested on the status object read at the call.
\* changed records (not program state) that the map held installing=false
\* for the module at a poll before maxWait.
WaitPoll ==
  /\ waiter.pc = "polling"
  /\ LET waited == waiter.waited + CheckInterval
         seen == waited < MaxWait /\ ~installStatus[waiter.module]["installing"]
     IN waiter' =
          [waiter EXCEPT
             !.waited = waited,
             !.changed = @ \/ seen,
             !.pc = IF waiter.status["installing"] /\ waited < MaxWait
                      THEN "polling"
                    ELSE IF TimedOut(waiter.status) THEN "timeout"
                    ELSE "returned"]
  /\ UNCHANGED <<installStatus, tasks, statusFile, writes, slowDisk, fileAtRestart,
                 execs, prevCall>>
  /\ UNCHANGED <<pluginVars, histVars, timerHist, clientVars, checkVars, loaderVars, extVars>>

-----------------------------------------------------------------------------
(* The disk and the life of the process *)

\* fs.writeFile opens the file with flag "w": the file is truncated
WriteOpens(w) ==
  /\ w \in writes
  /\ ~w.opened
  /\ statusFile' = TruncatedFile
  /\ writes' = (writes \ {w}) \cup {[w EXCEPT !.opened = TRUE]}
  /\ UNCHANGED <<installStatus, tasks, slowDisk, fileAtRestart, waiter, execs,
                 prevCall>>
  /\ UNCHANGED <<pluginVars, histVars, timerHist, clientVars, checkVars, loaderVars, extVars>>

\* fs.writeFile has written the document and closed the statusFile
WriteCompletes(w) ==
  /\ w \in writes
  /\ w.opened
  /\ statusFile' = CompleteFile(w)
  /\ writes' = writes \ {w}
  /\ UNCHANGED <<installStatus, tasks, slowDisk, fileAtRestart, waiter, execs,
                 prevCall>>
  /\ UNCHANGED <<pluginVars, histVars, timerHist, clientVars, checkVars, loaderVars, extVars>>

\* The process dies, whatever it was doing, and a new one starts: the module
\* initialisation awaits loadInstallStatus. fileAtRestart records (not
\* program state) what the dying process left on the disk.
Restart ==
  /\ installStatus' = LoadInstallStatus(statusFile)
  /\ tasks' = [t \in TaskIds |-> IdleTask]
  /\ writes' = {}
  /\ fileAtRestart' = statusFile.state
  /\ waiter' = IdleWaiter
  /\ execs' = [t \in TaskIds |-> NoExecs]
  /\ prevCall' = NoCall
  /\ UNCHANGED <<statusFile, slowDisk>>
  /\ UNCHANGED <<pluginVars, histVars, timerHist, clientVars, checkVars, loaderVars, extVars>>

-----------------------------------------------------------------------------
(* checkModuleStatus as a function of what it reads *)

\* The statuses checkModuleStatus may find in the map (a field that is
\* undefined stands for a field that is absent as well)
StoredStatuses ==
  [installing : {FALSE}, installed : BOOLEAN, error : BOOLEAN,
   dependenciesHash : Hashes \cup {"undefined"},
   version : Versions \cup {"undefined"}]

NoCheck == [called |-> FALSE, needInstall |-> FALSE, needBuild |-> FALSE]

CheckInputs ==
  [hasStatus : {TRUE}, status : StoredStatuses, info : ModuleInfos,
   nodeModulesOk : BOOLEAN]
    \cup [hasStatus : {FALSE}, status : {ClearedStatus}, info : ModuleInfos,
          nodeModulesOk : BOOLEAN]

InitCheckIdle ==
  /\ checkInput = [hasStatus |-> FALSE, status |-> ClearedStatus, info |-> NoInfo,
                   nodeModulesOk |-> FALSE]
  /\ checkResult = NoCheck

\* One call of checkModuleStatus on the inputs drawn
CheckModuleStatusCall ==
  /\ ~checkResult.called
  /\ LET r == CheckModuleStatus(checkInput.hasStatus, checkInput.status,
                                checkInput.info, checkInput.nodeModulesOk)
     IN checkResult' = [called |-> TRUE, needInstall |-> r.needInstall,
                        needBuild |-> r.needBuild]
  /\ UNCHANGED checkInput
  /\ UNCHANGED <<pluginVars, histVars, timerHist, clientVars, storeVars, loaderVars, extVars>>

-----------------------------------------------------------------------------
(* Loader: the plugin registry and the schedules (loader.ts) *)

\* The plugin files of the plugins directory and what each module exports:
\* a single plugin, or an array of plugins
PluginFiles == {"a.ts", "b.ts", "c/index.ts"}

Exports(file) ==
  IF file = "a.ts" THEN [single |-> TRUE, list |-> <<1>>]
  ELSE IF file = "b.ts" THEN [single |-> TRUE, list |-> <<2>>]
  ELSE [single |-> FALSE, list |-> <<3, 4, 5>>]

\* Plugin.id of each plugin instance: 1, 2 and 4 share an id
IdOf(inst) ==
  IF inst \in {1, 2, 4} THEN "p" ELSE IF inst = 3 THEN "q" ELSE "r"

\* plugin.schedules of each plugin instance: the number of its triggers
SchedulesOf(inst) == IF inst = 2 THEN 2 ELSE IF inst = 3 THEN 0 ELSE 1

NoPlugins == [id \in {} |-> 0]

NoLoad == [reload |-> FALSE, log |-> <<>>, schedulesBefore |-> {}]

InitLoader ==
  /\ plugins = NoPlugins
  /\ schedules = {}
  /\ watched = {}
  /\ pendingFiles = {}
  /\ lastLoad = NoLoad
  /\ timedOut = {}

\* createSchedules: nothing if the id has schedules and this is no reload;
\* else the schedules of the id are dropped and those of the plugin created
createSchedules(sch, inst, reload) ==
  LET isCreated == \E s \in sch : s.from = IdOf(inst)
  IN IF isCreated /\ ~reload THEN sch
     ELSE {s \in sch : s.from # IdOf(inst)}
            \cup {[from |-> IdOf(inst), by |-> inst, trigger |-> k] :
                    k \in 1..SchedulesOf(inst)}

\* (a loader that never sees a collision)
NeverDuplicate(reg, id, reload) == FALSE

\* if (plugins.has(i.id) && !reload)
Duplicate(reg, id, reload) == id \in DOMAIN reg /\ ~reload

\* plugins.delete(i.id) followed by plugins.set(i.id, i)
SetPlugin(reg, id, inst) ==
  [k \in DOMAIN reg \cup {id} |-> IF k = id THEN inst ELSE reg[k]]

\* The loop of loadPlugin over the exported plugins: a collision ends the
\* whole call. log records (not program state) what each round found.
RECURSIVE LoadLoop(_, _, _, _)
LoadLoop(file, reload, i, acc) ==
  IF i > Len(Exports(file).list) THEN acc
  ELSE LET inst == Exports(file).list[i]
           id == IdOf(inst)
           entry == [inst |-> inst, id |-> id,
                     holder |-> IF id \in DOMAIN acc.plugins THEN acc.plugins[id] ELSE 0,
                     size |-> Cardinality(DOMAIN acc.plugins),
                     outcome |-> "registered"]
       IN IF Duplicate(acc.plugins, id, reload)
          THEN [acc EXCEPT !.log = Append(@, [entry EXCEPT !.outcome = "rejected"])]
          ELSE LoadLoop(file, reload, i + 1,
                 [plugins |-> SetPlugin(acc.plugins, id, inst),
                  schedules |-> createSchedules(acc.schedules, inst, reload),
                  watched |-> IF Exports(file).single
                              THEN acc.watched \cup {file} ELSE acc.watched,
                  log |-> Append(acc.log, entry)])

\* loadPlugins: with reload the registry is cleared; a registry that is not
\* empty ends the call; else the files found are loaded side by side
LoadPlugins(reload, files) ==
  /\ pendingFiles = {}
  /\ reload \/ DOMAIN plugins = {}
  /\ plugins' = NoPlugins
  /\ pendingFiles' = files
  /\ lastLoad' = NoLoad
  /\ timedOut' = {}
  /\ UNCHANGED <<schedules, watched>>
  /\ UNCHANGED <<pluginVars, histVars, timerHist, clientVars, storeVars, checkVars, extVars>>

\* The effect of loadPlugin once the module is imported
LoadPluginBody(file, reload) ==
  LET r == LoadLoop(file, reload, 1,
             [plugins |-> plugins, schedules |-> schedules, watched |-> watched,
              log |-> <<>>])
  IN /\ plugins' = r.plugins
     /\ schedules' = r.schedules
     /\ watched' = r.watched
     /\ lastLoad' = [reload |-> reload, log |-> r.log, schedulesBefore |-> schedules]

\* loadPlugin(file) of loadPlugins, after its import has resolved
LoadPlugin(file) ==
  /\ file \in pendingFiles
  /\ pendingFiles' = pendingFiles \ {file}
  /\ LoadPluginBody(file, FALSE)
  /\ UNCHANGED timedOut
  /\ UNCHANGED <<pluginVars, histVars, timerHist, clientVars, storeVars, checkVars, extVars>>

\* The timer of utils.wait(pluginLoadTimeout * 1000, loadPlugin(file)) fires
\* before the loadPlugin call has settled: Promise.race resolves to
\* waitTimeout and loadPlugins logs the error; the loadPlugin call goes on
LoadTimeout(file) ==
  /\ file \in pendingFiles \ timedOut
  /\ timedOut' = timedOut \cup {file}
  /\ UNCHANGED <<plugins, schedules, watched, pendingFiles, lastLoad>>
  /\ UNCHANGED <<pluginVars, histVars, timerHist, clientVars, storeVars, checkVars, extVars>>

\* loadPlugin(file, true) of the "change" watcher of a single-file plugin
ReloadPlugin(file) ==
  /\ file \in watched
  /\ LoadPluginBody(file, TRUE)
  /\ UNCHANGED <<pendingFiles, timedOut>>
  /\ UNCHANGED <<pluginVars, histVars, timerHist, clientVars, storeVars, checkVars, extVars>>

-----------------------------------------------------------------------------
(* Connect and notice events (plugin.ts, bot.ts) *)

MaxConnectTriggers == 2   \* connect triggers per plugin
MaxConnects == 2          \* connect events of a run
MaxNoticeTriggers == 2    \* triggers of notice scope per plugin

\* Two of the NoticeEventIDs, and the scopes a trigger may name
NoticeIds == {"notice.group.member_join", "notice.group.member_leave"}
NoticeScopes == {{"notice"}} \cup {{n} : n \in NoticeIds}

NoNotice == [type |-> "none", scoped |-> {}, invoked |-> <<>>]

InitEvents ==
  /\ connectTriggers = [p \in PluginIds |-> <<>>]
  /\ noticeTriggers = [p \in PluginIds |-> <<>>]
  /\ connectRunning = {}
  /\ connects = 0
  /\ lastNotice = NoNotice

Registered == {pluginList[i] : i \in 1..Len(pluginList)}

\* Plugin.addTrigger, branch event === "connect": push a new ConnectTrigger.
\* since and calls are history (not program state): the connect events
\* before the registration, and the invocations of the handler.
AddConnectTrigger(p) ==
  /\ Len(connectTriggers[p]) < MaxConnectTriggers
  /\ connectTriggers' =
       [connectTriggers EXCEPT ![p] =
          Append(@, [id |-> Len(@) + 1, since |-> connects, calls |-> 0])]
  /\ UNCHANGED <<noticeTriggers, connectRunning, connects, lastNotice>>
  /\ UNCHANGED <<pluginVars, histVars, timerHist, clientVars, storeVars, checkVars,
                 loaderVars, runVars, importVars, setVars>>

\* (a loop that ends with the first trigger)
FirstTriggerOnly(trigs) == IF trigs = <<>> THEN {} ELSE {1}

\* Plugin.onConnect: for (const trigger of this._connectTriggers)
\* trigger.handle(connectEvent), without await
ConnectTargets(trigs) == 1..Len(trigs)

\* Bot.onConnect: plugin.onConnect(connectEvent) for every plugin of
\* pluginList, without await; each ConnectTrigger.handle runs up to the call
\* of its handler
BotOnConnect ==
  /\ connects < MaxConnects
  /\ connects' = connects + 1
  /\ connectTriggers' =
       [p \in PluginIds |->
          IF p \in Registered
          THEN [k \in 1..Len(connectTriggers[p]) |->
                  IF k \in ConnectTargets(connectTriggers[p])
                  THEN [connectTriggers[p][k] EXCEPT !.calls = @ + 1]
                  ELSE connectTriggers[p][k]]
          ELSE connectTriggers[p]]
  /\ connectRunning' =
       connectRunning \cup
         UNION {{<<p, k, connects + 1>> : k \in ConnectTargets(connectTriggers[p])} :
                p \in Registered}
  /\ UNCHANGED <<noticeTriggers, lastNotice>>
  /\ UNCHANGED <<pluginVars, histVars, timerHist, clientVars, storeVars, checkVars,
                 loaderVars, runVars, importVars, setVars>>

\* The promise of one connect handler settles; nothing awaits it
ConnectHandlerSettles(h) ==
  /\ h \in connectRunning
  /\ connectRunning' = connectRunning \ {h}
  /\ UNCHANGED <<connectTriggers, noticeTriggers, connects, lastNotice>>
  /\ UNCHANGED <<pluginVars, histVars, timerHist, clientVars, storeVars, checkVars,
                 loaderVars, runVars, importVars, setVars>>

\* NoticeTrigger.filterType
NoticeFilterType(t, type) == "notice" \in t.events \/ type \in t.events

\* Plugin.onNotice: the triggers of _noticeTriggers by priority; handle()
\* invokes the handler of a trigger of the scope and returns _abort
RECURSIVE PluginOnNotice(_, _, _, _, _)
PluginOnNotice(p, trigs, type, i, acc) ==
  IF i > Len(trigs) THEN [invoked |-> acc, result |-> FALSE]
  ELSE IF ~NoticeFilterType(trigs[i], type)
    THEN PluginOnNotice(p, trigs, type, i + 1, acc)
  ELSE IF trigs[i].abort
    THEN [invoked |-> Append(acc, <<p, trigs[i].id>>), result |-> TRUE]
  ELSE PluginOnNotice(p, trigs, type, i + 1, Append(acc, <<p, trigs[i].id>>))

\* Bot.onNotice: the plugins of pluginList in turn, until one returns true
RECURSIVE NoticeLoop(_, _, _)
NoticeLoop(type, i, acc) ==
  IF i > Len(pluginList) THEN acc
  ELSE LET p == pluginList[i]
           r == PluginOnNotice(p, SortByPriority(noticeTriggers[p]), type, 1, acc)
       IN IF r.result THEN r.invoked ELSE NoticeLoop(type, i + 1, r.invoked)

\* The triggers a plugin registered through addTrigger whose scope covers
\* the notice type
ScopedTriggers(type) ==
  UNION {{<<p, messageTriggers[p][i].id>> :
            i \in {j \in 1..Len(messageTriggers[p]) :
                     NoticeFilterType(messageTriggers[p][j], type)}} :
         p \in Registered}

\* One Bot.onNotice call, with the handlers it invokes. lastNotice records
\* (not program state) the triggers of the scope and the handlers invoked.
BotOnNotice(type) ==
  /\ noticeTriggers' = [p \in PluginIds |-> SortByPriority(noticeTriggers[p])]
  /\ lastNotice' = [type |-> type, scoped |-> ScopedTriggers(type),
                    invoked |-> NoticeLoop(type, 1, <<>>)]
  /\ UNCHANGED <<connectTriggers, connectRunning, connects>>
  /\ UNCHANGED <<pluginVars, histVars, timerHist, clientVars, storeVars, checkVars,
                 loaderVars, runVars, importVars, setVars>>

-----------------------------------------------------------------------------
(* Client.run (client.ts) *)

MaxReadyHandlers == 2     \* on-ready handlers registered

\* The loaders of Client.run in the order of their await
Loaders == <<"plugins", "adapters", "extensions">>

\* ran, failed and ready are history (not program state): the loaders
\* called, the loader whose promise rejected, the on-ready handlers called
IdleRun == [pc |-> "idle", at |-> 0, ran |-> {}, failed |-> "none", ready |-> <<>>,
            registered |-> 0]

InitRun ==
  /\ onReadyHandlers = 0
  /\ run = IdleRun

\* Client.registerOnReadyHandler
RegisterOnReadyHandler ==
  /\ ~terminated
  /\ onReadyHandlers < MaxReadyHandlers
  /\ onReadyHandlers' = onReadyHandlers + 1
  /\ UNCHANGED run
  /\ UNCHANGED <<pluginVars, histVars, timerHist, clientVars, storeVars, checkVars,
                 loaderVars, eventVars, importVars, setVars>>

\* Client.run up to its first await: loadPlugins() is called
ClientRun ==
  /\ ~terminated
  /\ run.pc = "idle"
  /\ run' = [run EXCEPT !.pc = "loading", !.at = 1, !.ran = {Loaders[1]}]
  /\ UNCHANGED onReadyHandlers
  /\ UNCHANGED <<pluginVars, histVars, timerHist, clientVars, storeVars, checkVars,
                 loaderVars, eventVars, importVars, setVars>>

\* Whether the promise of a loader can reject: scanFiles of loadPlugins and
\* loadAdapters awaits fs.readdir outside any try; autoImportExtensions
\* catches what it meets
CanReject(loader) == loader \in {"plugins", "adapters"}

\* The awaited promise of the loader in turn settles. Fulfilled: the next
\* element of the array literal is evaluated, and after the last one
\* Promise.allSettled is called. Rejected: the await throws and run() ends.
LoaderSettles(ok) ==
  /\ ~terminated
  /\ run.pc = "loading"
  /\ ok \/ CanReject(Loaders[run.at])
  /\ run' =
       IF ~ok THEN [run EXCEPT !.pc = "rejected", !.failed = Loaders[run.at]]
       ELSE IF run.at < Len(Loaders)
         THEN [run EXCEPT !.at = @ + 1, !.ran = @ \cup {Loaders[run.at + 1]}]
       ELSE [run EXCEPT !.pc = "settled"]
  /\ UNCHANGED onReadyHandlers
  /\ UNCHANGED <<pluginVars, histVars, timerHist, clientVars, storeVars, checkVars,
                 loaderVars, eventVars, importVars, setVars>>

\* The then-callback of Promise.allSettled: handler.onReady() for every
\* handler of _onReadyHandlers, without await
AllLoadedThen ==
  /\ ~terminated
  /\ run.pc = "settled"
  /\ run' = [run EXCEPT !.pc = "ready", !.registered = onReadyHandlers,
                        !.ready = [k \in 1..onReadyHandlers |-> k]]
  /\ UNCHANGED onReadyHandlers
  /\ UNCHANGED <<pluginVars, histVars, timerHist, clientVars, storeVars, checkVars,
                 loaderVars, eventVars, importVars, setVars>>

-----------------------------------------------------------------------------
(* importExtension (extensions/index.ts) *)

\* imported, hit, result, waited, checked, installs, cause and failures are
\* history (not program state): the modules an earlier call imported, whether
\* this call names one of them, what the call returned, whether it called
\* waitForInstallation, getInstallStatus and installDependencies, why it
\* failed, and the calls that failed so far; cleared are the modules that
\* clearModuleCache was called for since the cache last stored them, and
\* afterClear whether this call names one of them; stale whether the call
\* found installing=true while no installDependencies call was in flight
IdleImporter ==
  [pc |-> "idle", module |-> 0, force |-> FALSE, imported |-> {}, hit |-> FALSE,
   result |-> "none", waited |-> FALSE, checked |-> FALSE, installs |-> FALSE,
   cause |-> "none", failures |-> 0, cleared |-> {}, afterClear |-> FALSE,
   stale |-> FALSE]

InitImport ==
  /\ moduleCache = {}
  /\ importer = IdleImporter

\* no setInstallStatus call from outside the dependency manager yet
NoSet == [called |-> FALSE, module |-> 0, patch |-> ClearedStatus, before |-> EmptyStore]

InitSet == lastSet = NoSet

InitExt == InitEvents /\ InitRun /\ InitImport /\ InitSet

\* setInstallStatus called with a module directory and a status object
SetInstallStatusCalled(m, patch) ==
  /\ SetAndSave(m, patch)
  /\ lastSet' = [called |-> TRUE, module |-> m, patch |-> patch,
                 before |-> installStatus]
  /\ UNCHANGED <<tasks, slowDisk, fileAtRestart, waiter, execs, prevCall>>
  /\ UNCHANGED <<pluginVars, histVars, timerHist, clientVars, checkVars, loaderVars,
                 eventVars, runVars, importVars>>

\* (a cache that is never found to hold the module)
NeverCached(cache, m) == FALSE

\* if (moduleCache.has(extensionDir))
Cached(cache, m) == m \in cache

\* (a cache that is written whatever the try block met)
CacheAlways(cache, m, ok) == cache \cup {m}

\* moduleCache.set(extensionDir, module) is the last statement of the try
\* block: it runs if nothing before it threw
CacheAfter(cache, m, ok) == IF ok THEN cache \cup {m} ELSE cache

\* importExtension up to its first await: the cached module is returned,
\* or waitForInstallation is called for a status that is installing, or
\* installDependencies is called
ImportExtension(m, force, info, nodeModulesOk) ==
  /\ ~terminated
  /\ importer.pc \in {"idle", "returned", "failed"}
  /\ tasks[1].pc = "idle"
  /\ LET call == [IdleImporter EXCEPT !.module = m, !.force = force,
                                      !.imported = importer.imported,
                                      !.hit = m \in importer.imported,
                                      !.cleared = importer.cleared,
                                      !.afterClear = m \in importer.cleared,
                                      !.failures = importer.failures]
     IN IF Cached(moduleCache, m)
        THEN /\ importer' = [call EXCEPT !.pc = "returned", !.result = "module"]
             /\ UNCHANGED storeVars
        ELSE IF m \in DOMAIN installStatus /\ installStatus[m]["installing"]
        THEN /\ WaitForInstallationCall(m)
             /\ importer' = [call EXCEPT !.pc = "waiting", !.checked = TRUE,
                                         !.waited = TRUE,
                                         !.stale = \A t \in TaskIds :
                                                     tasks[t].pc = "idle"]
        ELSE /\ InstallDependenciesCall(1, m, force, info, nodeModulesOk)
             /\ importer' = [call EXCEPT !.pc = "installing", !.checked = TRUE,
                                         !.installs = TRUE]
  /\ UNCHANGED moduleCache
  /\ UNCHANGED <<pluginVars, histVars, timerHist, clientVars, checkVars, loaderVars,
                 eventVars, runVars, setVars>>

\* The catch block: logger.fatal, client.gracefulExit(1); the call returns
\* undefined
ImportCatch(cause) ==
  /\ GracefulExitCall("1")
  /\ importer' = [importer EXCEPT !.pc = "failed", !.result = "undefined",
                                  !.cause = cause, !.failures = @ + 1]
  /\ moduleCache' = CacheAfter(moduleCache, importer.module, FALSE)
  /\ UNCHANGED <<pluginVars, histVars, timerHist, checkVars, loaderVars,
                 eventVars, runVars, setVars>>

\* waitForInstallation has thrown its timeout. (It is called for a status
\* that is installing and tests the status object it read at the call, so
\* it has no other end: see WaitPoll.)
ImportWaitTimesOut ==
  /\ importer.pc = "waiting"
  /\ waiter.pc = "timeout"
  /\ ImportCatch("wait")
  /\ UNCHANGED storeVars

\* installDependencies has thrown
ImportInstallRaises ==
  /\ importer.pc = "installing"
  /\ tasks[1].pc = "failed"
  /\ InstallDependenciesReturns(1)
  /\ ImportCatch("install")

\* installDependencies has returned: the dynamic import starts
ImportAfterInstall ==
  /\ ~terminated
  /\ importer.pc = "installing"
  /\ tasks[1].pc = "done"
  /\ InstallDependenciesReturns(1)
  /\ importer' = [importer EXCEPT !.pc = "importing"]
  /\ UNCHANGED moduleCache
  /\ UNCHANGED <<pluginVars, histVars, timerHist, clientVars, checkVars, loaderVars,
                 eventVars, runVars, setVars>>

\* The dynamic import has resolved: the module is cached and returned
ImportResolves ==
  /\ ~terminated
  /\ importer.pc = "importing"
  /\ moduleCache' = CacheAfter(moduleCache, importer.module, TRUE)
  /\ importer' = [importer EXCEPT !.pc = "returned", !.result = "module",
                                  !.imported = @ \cup {importer.module},
                                  !.cleared = @ \ {importer.module}]
  /\ UNCHANGED <<pluginVars, histVars, timerHist, clientVars, storeVars, checkVars,
                 loaderVars, eventVars, runVars, setVars>>

\* The dynamic import has rejected
ImportRejects ==
  /\ importer.pc = "importing"
  /\ ImportCatch("import")
  /\ UNCHANGED storeVars

\* path.resolve(config.rootDir, extensionDir): the absolute path of a module
\* directory. The directories path.join("extensions", name) gives are
\* relative and numbered 1..MaxModules; the absolute paths are the strings
\* numbered after them.
ResolvePath(dir) == dir + MaxModules

\* clearModuleCache(extensionName): moduleCache.delete(modulePath)
ClearModuleCache(m) ==
  /\ moduleCache' = moduleCache \ {ResolvePath(m)}
  /\ importer' = [importer EXCEPT !.cleared = @ \cup {m}]
  /\ UNCHANGED <<pluginVars, histVars, timerHist, clientVars, storeVars, checkVars,
                 loaderVars, eventVars, runVars, setVars>>

\* clearModuleCache(): moduleCache.clear()
ClearModuleCacheAll ==
  /\ moduleCache' = {}
  /\ importer' = [importer EXCEPT !.cleared = @ \cup Modules]
  /\ UNCHANGED <<pluginVars, histVars, timerHist, clientVars, storeVars, checkVars,
                 loaderVars, eventVars, runVars, setVars>>

-----------------------------------------------------------------------------
(* Specifications of the dispatcher *)

InitPlugins(list) ==
  /\ pluginList = list
  /\ messageTriggers = [p \in PluginIds |-> <<>>]
  /\ interactions = [p \in PluginIds |-> [k \in AllKeys |-> NoSession]]
  /\ timers = {}
  /\ nextTimer = 1
  /\ botPc = "idle"
  /\ msg = NoMessage
  /\ pi = 1
  /\ ti = 1
  /\ bg = {}
  /\ outcome = "none"
  /\ offered = <<>>
  /\ evaluated = <<>>
  /\ tested = <<>>
  /\ invoked = <<>>
  /\ snapshotBest = [p \in PluginIds |-> -1]
  /\ hadSession = {}
  /\ keyHolders = {}
  /\ delivered = <<>>
  /\ returnedTrue = <<>>
  /\ firedTimers = {}
  /\ replacedTimers = {}
  /\ timeoutReplies = <<>>
  /\ finishedTimers = {}

DispatchSteps ==
  \/ PluginOnMessage
  \/ TriggerHandle
  \/ HandlerFulfil
  \/ HandlerReject

\* One plugin, triggers that differ in priority, scope and predicate
TrigMessages == {Message(1, t, x) : t \in {PersonTarget, GroupTarget}, x \in Texts}

InitTrig == InitPlugins(<<1>>) /\ InitClient /\ InitStore /\ InitCheckIdle /\ InitLoader /\ InitExt

NextTrig ==
  \/ \E prio \in 0..MaxPriority, ev \in {{}, {"message.group"}},
        acc \in {{"a"}, {"a", "b"}} :
       AddTrigger(1, prio, "omitted", "omitted", ev, acc, MaxTriggers)
  \/ \E m \in TrigMessages : BotOnMessage(m)
  \/ DispatchSteps

SpecTrig == InitTrig /\ [][NextTrig]_vars

\* One plugin, triggers that differ in the abort and wait arguments
FlagMessages == {Message(1, PersonTarget, x) : x \in Texts}

InitFlags == InitPlugins(<<1>>) /\ InitClient /\ InitStore /\ InitCheckIdle /\ InitLoader /\ InitExt

NextFlags ==
  \/ \E prio \in 0..MaxPriority, abortArg \in BoolArgs, waitArg \in BoolArgs :
       AddTrigger(1, prio, abortArg, waitArg, {}, {"a"}, MaxFlagTriggers)
  \/ \E m \in FlagMessages : BotOnMessage(m)
  \/ DispatchSteps

SpecFlags == InitFlags /\ [][NextFlags]_vars

\* One plugin with interaction sessions and their timers
SessionMessages == {Message(1, t, "a") : t \in {NoTarget, PersonTarget, GroupTarget}}
TimeoutSeconds == {0, 5}

InitInteract == InitPlugins(<<1>>) /\ InitClient /\ InitStore /\ InitCheckIdle /\ InitLoader /\ InitExt

NextInteract ==
  \/ AddTrigger(1, 0, "omitted", "omitted", {}, {"a"}, MaxSessionTriggers)
  \/ \E m \in SessionMessages : BotOnMessage(m)
  \/ DispatchSteps
  \/ \E h \in bg : BackgroundSettle(h)
  \/ \E m \in SessionMessages, h \in 1..MaxSessionHandlers, s \in TimeoutSeconds :
       StartInteract(1, m, h, s)
  \/ \E m \in SessionMessages : FinishInteract(1, m)
  \/ \E t \in timers : TimerFire(t)

SpecInteract == InitInteract /\ [][NextInteract]_vars

\* One plugin, one trigger, one session handler: the sessions and their
\* timers against messages with and without target
NextSession ==
  \/ AddTrigger(1, 0, "omitted", "omitted", {}, {"a"}, MaxBotTriggers)
  \/ \E m \in SessionMessages : BotOnMessage(m)
  \/ DispatchSteps
  \/ \E h \in bg : BackgroundSettle(h)
  \/ \E m \in SessionMessages, s \in TimeoutSeconds : StartInteract(1, m, 1, s)
  \/ \E m \in SessionMessages : FinishInteract(1, m)
  \/ \E t \in timers : TimerFire(t)

SpecSession == InitInteract /\ [][NextSession]_vars

\* setInstallStatus on its own, over two module directories: the map starts
\* with no record or one written record per directory, the calls pass the
\* status objects the code passes
MaxSetModules == 2
SetModules == 1..MaxSetModules
SetInfo == [needBuild |-> TRUE, buildScript |-> "build", version |-> "v1",
            dependenciesHash |-> "h1"]
StatusObjects ==
  {InstallStartStatus, InstallSuccessStatus(SetInfo), InstallFailureStatus,
   BuildStartStatus(SetInfo), BuildSuccessStatus(SetInfo), BuildFailureStatus,
   ClearedStatus}
SetStores == UNION {[D -> StatusObjects] : D \in SUBSET SetModules}

InitSetting ==
  /\ InitPlugins(<<1>>) /\ InitClient /\ InitCheckIdle /\ InitLoader /\ InitExt
  /\ installStatus \in SetStores
  /\ statusFile = IF installStatus = EmptyStore THEN NoFile
                  ELSE CompleteFile([text |-> JSONStringify(installStatus),
                                     snapshot |-> installStatus])
  /\ tasks = [t \in TaskIds |-> IdleTask]
  /\ writes = {}
  /\ slowDisk = FALSE
  /\ fileAtRestart = "none"
  /\ waiter = IdleWaiter
  /\ execs = [t \in TaskIds |-> NoExecs]
  /\ prevCall = NoCall

NextSetting ==
  \E m \in SetModules, patch \in StatusObjects : SetInstallStatusCalled(m, patch)

SpecSetting == InitSetting /\ [][NextSetting]_vars

\* Several plugins in any registration order
RECURSIVE Perms(_)
Perms(S) ==
  IF S = {} THEN {<<>>}
  ELSE UNION {{<<x>> \o q : q \in Perms(S \ {x})} : x \in S}

BotMessages == {Message(1, PersonTarget, x) : x \in Texts}

InitBot == (\E list \in Perms(PluginIds) : InitPlugins(list)) /\ InitClient /\ InitStore /\ InitCheckIdle /\ InitLoader /\ InitExt

NextBot ==
  \/ \E p \in PluginIds, acc \in {{"a"}, {"a", "b"}} :
       AddTrigger(p, 0, "omitted", "omitted", {}, acc, MaxBotTriggers)
  \/ \E m \in BotMessages : BotOnMessage(m)
  \/ DispatchSteps
  \/ \E h \in bg : BackgroundSettle(h)
  \/ \E p \in PluginIds, m \in BotMessages : StartInteract(p, m, 1, 0)
  \/ \E p \in PluginIds, m \in BotMessages : FinishInteract(p, m)

SpecBot == InitBot /\ [][NextBot]_vars

\* Connect events: the plugins in any registration order, connect triggers
\* registered before and between the events
InitConnect ==
  (\E list \in Perms(PluginIds) : InitPlugins(list)) /\ InitClient /\ InitStore /\ InitCheckIdle /\ InitLoader /\ InitExt

NextConnect ==
  \/ \E p \in PluginIds : AddConnectTrigger(p)
  \/ BotOnConnect
  \/ \E h \in connectRunning : ConnectHandlerSettles(h)

SpecConnect == InitConnect /\ [][NextConnect]_vars

\* Notice events: triggers registered through addTrigger with a notice scope
InitNotice ==
  (\E list \in Perms(PluginIds) : InitPlugins(list)) /\ InitClient /\ InitStore /\ InitCheckIdle /\ InitLoader /\ InitExt

NextNotice ==
  \/ \E p \in PluginIds, ev \in NoticeScopes :
       AddTrigger(p, 0, "omitted", "omitted", ev, {"a"}, MaxNoticeTriggers)
  \/ \E type \in NoticeIds : BotOnNotice(type)

SpecNotice == InitNotice /\ [][NextNotice]_vars

\* The shutdown sequence of the client
InitExit == InitPlugins(<<1>>) /\ InitClient /\ InitStore /\ InitCheckIdle /\ InitLoader /\ InitExt

NextExit ==
  \/ RegisterExitHandler
  \/ \E code \in ExitArgs : GracefulExit(code)
  \/ \E h \in ExitHandlerIds, r \in {"fulfilled", "rejected"} : ExitHandlerSettles(h, r)
  \/ AllSettledThen
  \/ HardTimeout

SpecExit == InitExit /\ [][NextExit]_vars

\* The start of the client beside its shutdown: the signal handlers that
\* run() installs call gracefulExit()
InitRunning == InitPlugins(<<1>>) /\ InitClient /\ InitStore /\ InitCheckIdle /\ InitLoader /\ InitExt

NextRunning ==
  \/ RegisterOnReadyHandler
  \/ ClientRun
  \/ \E ok \in BOOLEAN : LoaderSettles(ok)
  \/ AllLoadedThen
  \/ RegisterExitHandler
  \/ GracefulExit("undefined")
  \/ \E h \in ExitHandlerIds, r \in {"fulfilled", "rejected"} : ExitHandlerSettles(h, r)
  \/ AllSettledThen
  \/ HardTimeout

SpecRun == InitRunning /\ [][NextRunning]_vars

\* Timers fire and settled promises run their callbacks; an exit handler
\* need not ever settle
FairSpecExit == SpecExit /\ WF_vars(HardTimeout) /\ WF_vars(AllSettledThen)

\* Concurrent installDependencies calls and status resets, on modules whose
\* package.json is unreadable or declares one version and one dependency set
InterleavedInfos ==
  {i \in ModuleInfos : i.version \in {"v1", "0.0.0"} /\ i.dependenciesHash \in {"h1", ""}}

InitInstall == InitPlugins(<<1>>) /\ InitClient /\ InitStore /\ InitCheckIdle /\ InitLoader /\ InitExt

NextInstall ==
  \/ \E t \in TaskIds, m \in Modules, force \in BOOLEAN, info \in InterleavedInfos,
        nodeModulesOk \in BOOLEAN :
       InstallDependencies(t, m, force, info, nodeModulesOk)
  \/ \E t \in TaskIds : AfterCheck(t)
  \/ \E t \in TaskIds : RunInstallStart(t)
  \/ \E t \in TaskIds : InstallSucceeds(t)
  \/ \E t \in TaskIds : InstallFails(t)
  \/ \E t \in TaskIds : AfterInstall(t)
  \/ \E t \in TaskIds : BuildSucceeds(t)
  \/ \E t \in TaskIds : BuildFails(t)
  \/ \E t \in TaskIds : InstallDependenciesEnds(t)
  \/ \E m \in Modules : ClearExtensionInstallStatus(m)

SpecInstall == InitInstall /\ [][NextInstall]_vars

\* installDependencies calls one after the other
InitSeq == InitPlugins(<<1>>) /\ InitClient /\ InitStore /\ InitCheckIdle /\ InitLoader /\ InitExt

NextSeq ==
  \/ \E m \in Modules, force \in BOOLEAN, info \in ModuleInfos, ok \in BOOLEAN :
       InstallDependencies(1, m, force, info, ok)
  \/ AfterCheck(1)
  \/ RunInstallStart(1)
  \/ InstallSucceeds(1)
  \/ InstallFails(1)
  \/ AfterInstall(1)
  \/ BuildSucceeds(1)
  \/ BuildFails(1)
  \/ InstallDependenciesEnds(1)
  \/ \E m \in Modules : ClearExtensionInstallStatus(m)

SpecSeq == InitSeq /\ [][NextSeq]_vars


\* waitForInstallation beside one installDependencies call
InitWait == InitPlugins(<<1>>) /\ InitClient /\ InitStore /\ InitCheckIdle /\ InitLoader /\ InitExt

WaitInfos ==
  {i \in ModuleInfos : i.version = "v1" /\ i.dependenciesHash = "h1"}

NextWait ==
  \/ \E m \in Modules, info \in WaitInfos, ok \in BOOLEAN :
       InstallDependencies(1, m, FALSE, info, ok)
  \/ AfterCheck(1)
  \/ RunInstallStart(1)
  \/ InstallSucceeds(1)
  \/ InstallFails(1)
  \/ AfterInstall(1)
  \/ BuildSucceeds(1)
  \/ BuildFails(1)
  \/ InstallDependenciesEnds(1)
  \/ \E m \in Modules : WaitForInstallation(m)
  \/ WaitPoll

SpecWait == InitWait /\ [][NextWait]_vars

\* importExtension calls one after the other (their installDependencies
\* call is task 1) beside the installDependencies calls of another caller
\* (task 2) on a module without a build; no import starts once the process
\* is exiting
InitImporting == InitPlugins(<<1>>) /\ InitClient /\ InitStore /\ InitCheckIdle /\ InitLoader /\ InitExt

ImportInfos ==
  {i \in ModuleInfos : i.version = "v1" /\ i.dependenciesHash = "h1"}

NextImporting ==
  \/ \E m \in Modules, force \in BOOLEAN, info \in ImportInfos, ok \in BOOLEAN :
       ~exiting /\ ImportExtension(m, force, info, ok)
  \/ ImportWaitTimesOut
  \/ ImportInstallRaises
  \/ ImportAfterInstall
  \/ ImportResolves
  \/ ImportRejects
  \/ WaitPoll
  \/ \E m \in Modules, info \in ImportInfos :
       ~info.needBuild /\ InstallDependencies(2, m, FALSE, info, TRUE)
  \/ \E t \in TaskIds : AfterCheck(t)
  \/ \E t \in TaskIds : RunInstallStart(t)
  \/ \E t \in TaskIds : InstallSucceeds(t)
  \/ \E t \in TaskIds : InstallFails(t)
  \/ \E t \in TaskIds : AfterInstall(t)
  \/ \E t \in TaskIds : BuildSucceeds(t)
  \/ \E t \in TaskIds : BuildFails(t)
  \/ InstallDependenciesEnds(2)

SpecImport == InitImporting /\ [][NextImporting]_vars

\* importExtension in a process that started after another died in the
\* middle of an install: the new process has done nothing but load the file
NextStale ==
  \/ NextImporting
  \/ importer = IdleImporter /\ ~exiting /\ Restart

SpecStale == InitImporting /\ [][NextStale]_vars

\* importExtension and clearModuleCache
NextCache ==
  \/ NextImporting
  \/ \E m \in Modules : ClearModuleCache(m)
  \/ ClearModuleCacheAll

SpecCache == InitImporting /\ [][NextCache]_vars

\* The status file on a disk that is slower than the event loop, and the
\* process dying and starting again
DiskInfos ==
  {i \in ModuleInfos : i.version = "v1" /\ i.dependenciesHash = "h1"}

InitDisk ==
  InitPlugins(<<1>>) /\ InitClient /\ InitStoreOn(TRUE) /\ InitCheckIdle /\ InitLoader /\ InitExt

NextDisk ==
  \/ \E m \in Modules, info \in DiskInfos, ok \in BOOLEAN :
       InstallDependencies(1, m, FALSE, info, ok)
  \/ AfterCheck(1)
  \/ RunInstallStart(1)
  \/ InstallSucceeds(1)
  \/ InstallFails(1)
  \/ AfterInstall(1)
  \/ BuildSucceeds(1)
  \/ BuildFails(1)
  \/ InstallDependenciesEnds(1)
  \/ \E w \in writes : WriteOpens(w)
  \/ \E w \in writes : WriteCompletes(w)
  \/ Restart

SpecDisk == InitDisk /\ [][NextDisk]_vars

\* checkModuleStatus on every input
InitCheck ==
  /\ InitPlugins(<<1>>) /\ InitClient /\ InitStore /\ InitLoader /\ InitExt
  /\ checkInput \in CheckInputs
  /\ checkResult = NoCheck

NextCheck == CheckModuleStatusCall

SpecCheck == InitCheck /\ [][NextCheck]_vars

\* The loader
InitLoad == InitPlugins(<<1>>) /\ InitClient /\ InitStore /\ InitCheckIdle /\ InitLoader /\ InitExt

NextLoad ==
  \/ \E reload \in BOOLEAN, files \in (SUBSET PluginFiles) \ {{}} :
       LoadPlugins(reload, files)
  \/ \E file \in PluginFiles : LoadPlugin(file)
  \/ \E file \in PluginFiles : ReloadPlugin(file)

SpecLoad == InitLoad /\ [][NextLoad]_vars

\* The loader with the load timeout of loadPlugins
InitTimeout == InitPlugins(<<1>>) /\ InitClient /\ InitStore /\ InitCheckIdle /\ InitLoader /\ InitExt

NextTimeout ==
  \/ \E reload \in BOOLEAN, files \in (SUBSET PluginFiles) \ {{}} :
       LoadPlugins(reload, files)
  \/ \E file \in PluginFiles : LoadPlugin(file)
  \/ \E file \in PluginFiles : LoadTimeout(file)

SpecTimeout == InitTimeout /\ [][NextTimeout]_vars


-----------------------------------------------------------------------------
(* Properties of the trigger engine and the dispatcher *)

TriggerById(p, id) ==
  CHOOSE t \in {messageTriggers[p][i] : i \in 1..Len(messageTriggers[p])} : t.id = id

InvokedOf(p) == SelectSeq(invoked, LAMBDA e : e[1] = p)
EvaluatedOf(p) == SelectSeq(evaluated, LAMBDA e : e[1] = p)
DeliveredOf(p) == SelectSeq(delivered, LAMBDA e : e[1] = p)

\* C1: in a dispatch pass with no active session, the first handler a plugin
\* invokes is that of the matching trigger of highest priority among the
\* triggers registered when the pass starts, the first registered among
\* equal priorities; and when such a trigger exists its handler is invoked
\* by the end of the dispatch. This holds for every dispatch of a run.
C1_HighestPriorityFirst ==
  \A p \in PluginIds :
    /\ (snapshotBest[p] > 0 /\ InvokedOf(p) # <<>>) =>
         InvokedOf(p)[1][2] = snapshotBest[p]
    /\ (snapshotBest[p] > 0 /\ botPc = "done") => InvokedOf(p) # <<>>

\* A dispatch ended after invoking a handler that is neither the first
\* registered nor the last, with a lower-priority match registered before it
\* and an equal-priority match registered after it.
C1_Witness ==
  /\ botPc = "done"
  /\ Len(invoked) = 1
  /\ LET trigs == messageTriggers[1]
     IN \E i, j, k \in 1..Len(trigs) :
          /\ trigs[i].id = invoked[1][2]
          /\ Matches(trigs[i], msg) /\ Matches(trigs[j], msg) /\ Matches(trigs[k], msg)
          /\ trigs[j].priority = trigs[i].priority /\ trigs[j].id > trigs[i].id
          /\ trigs[k].priority < trigs[i].priority /\ trigs[k].id < trigs[i].id

\* C2: once startInteract has replaced a session, the timer of the replaced
\* session never fires.
C2_ReplacedTimerNeverFires == firedTimers \cap replacedTimers = {}

\* C3: a matched trigger registered with abort=false never ends the plugin's
\* trigger loop, and the loop never goes past a matched trigger registered
\* with abort=true or with abort omitted.
C3_AbortArgumentDecides ==
  /\ returnedTrue # <<>> =>
       TriggerById(returnedTrue[1], returnedTrue[2]).abortArg # "false"
  /\ botPc = "trigger" =>
       \A i \in 1..Len(invoked) :
         invoked[i][1] = pluginList[pi] =>
           TriggerById(invoked[i][1], invoked[i][2]).abortArg = "false"

\* C4: when the plugin holds a session for the message's conversation key,
\* onMessage hands the event to the session handler, evaluates none of the
\* plugin's triggers and returns true at once (the dispatch is over while
\* the handler may still run).
C4_SessionBypassesTriggers ==
  \A p \in hadSession :
    /\ DeliveredOf(p) # <<>>
    /\ EvaluatedOf(p) = <<>>
    /\ InvokedOf(p) = <<>>
    /\ botPc = "done" /\ outcome = "handled"
    /\ offered[Len(offered)] = p

\* A dispatch that went to a session handler, still running, although two
\* registered triggers match the message.
C4_Witness ==
  /\ hadSession = {1}
  /\ botPc = "done"
  /\ \E h \in 1..MaxSessionHandlers : <<"session", 1, h>> \in bg
  /\ Len(messageTriggers[1]) = 2
  /\ \A i \in 1..2 : Matches(messageTriggers[1][i], msg)

\* C5: handle() never waits for the handler of a trigger registered with
\* wait=false, and the handler of a trigger registered with wait=true is
\* never left running in the background.
C5_WaitArgumentDecides ==
  /\ botPc = "awaiting" =>
       messageTriggers[pluginList[pi]][ti].waitArg # "false"
  /\ \A h \in bg : h[1] = "trigger" => TriggerById(h[2], h[3]).waitArg # "true"

\* C6: Bot.onMessage offers the message to the plugins in registration
\* order; the plugin that reports fully-handled is the last one offered and
\* the dispatch ends there; a dispatch that ends unhandled has offered every
\* plugin; and when the first-registered plugin has a matching trigger, only
\* its handler is invoked.
C6_StopsAtFirstHandled ==
  /\ Len(offered) <= Len(pluginList)
  /\ \A i \in 1..Len(offered) : offered[i] = pluginList[i]
  /\ returnedTrue # <<>> =>
       /\ returnedTrue[1] = offered[Len(offered)]
       /\ botPc = "done" /\ outcome = "handled"
  /\ delivered # <<>> =>
       /\ delivered[1][1] = offered[Len(offered)]
       /\ botPc = "done" /\ outcome = "handled"
  /\ (botPc = "done" /\ outcome = "unhandled") => offered = pluginList
  /\ (pluginList # <<>> /\ snapshotBest[pluginList[1]] > 0) =>
       /\ offered = <<pluginList[1]>>
       /\ \A i \in 1..Len(invoked) : invoked[i][1] = pluginList[1]

\* Plugin 2 was registered before plugin 1, both have a matching trigger,
\* and the dispatch ended with the handler of plugin 2 alone invoked.
C6_Witness ==
  /\ pluginList[1] = 2
  /\ botPc = "done" /\ outcome = "handled"
  /\ \A p \in PluginIds : BestMatch(messageTriggers[p], msg) > 0
  /\ invoked = <<<<2, 1>>>>
  /\ offered = <<2>>

\* C7: a handler that rejects never makes Bot.onMessage reject.
C7_HandlerErrorContained == outcome # "raised"

-----------------------------------------------------------------------------
(* Properties of the shutdown sequence *)

\* C8: however many times gracefulExit is called, every exit handler
\* registered when it is first called has its onExit() called exactly once,
\* no handler is called more than once, and process.exit is called at most
\* once (exactly once when the process has ended).
C8_ExitHandlersOnce ==
  /\ \A h \in ExitHandlerIds : onExitCalls[h] <= 1
  /\ exiting => \A h \in ExitHandlerIds : h <= exitSnapshot => onExitCalls[h] = 1
  /\ ~exiting => \A h \in ExitHandlerIds : onExitCalls[h] = 0
  /\ processExitCalls <= 1
  /\ terminated <=> processExitCalls = 1

\* gracefulExit was called three times with two handlers registered, and the
\* process has ended.
C8_Witness ==
  /\ gracefulExitCalls = 3
  /\ exitSnapshot = 2
  /\ terminated

\* C9: after the first gracefulExit the process terminates, whether or not
\* the exit handlers settle.
C9_ExitTerminates == exiting ~> terminated

\* The process ended on the hard timeout while an exit handler was pending
\* and another had rejected.
C9_Witness ==
  /\ terminated
  /\ allSettledArmed
  /\ \E h \in ExitHandlerIds : onExitState[h] = "pending"
  /\ \E h \in ExitHandlerIds : onExitState[h] = "rejected"

-----------------------------------------------------------------------------
(* Properties of the install-status store *)

\* C10: no stored status has installing and installed both true.
C10_NotInstallingAndInstalled ==
  \A m \in DOMAIN installStatus :
    ~(installStatus[m]["installing"] /\ installStatus[m]["installed"])

\* A build is running (installing) on a module that an earlier install had
\* marked installed, while another call has just recorded an install.
C10_Witness ==
  \E m \in DOMAIN installStatus, t, u \in TaskIds :
    /\ t # u
    /\ tasks[t].pc = "build_exec" /\ tasks[t].module = m
    /\ tasks[u].pc = "installed" /\ tasks[u].module = m
    /\ installStatus[m]["installed"]
    /\ Field(installStatus[m], "lastInstallTime") = Now

\* Field-for-field equality of statuses and of status maps
StatusFields == BooleanFields \cup NumberFields \cup StringFields

Has(status, f) == f \in DOMAIN status /\ ~IsUndefined(f, status[f])

SameStatus(a, b) ==
  \A f \in StatusFields :
    /\ Has(a, f) <=> Has(b, f)
    /\ Has(a, f) => a[f] = b[f]

SameStore(a, b) ==
  /\ DOMAIN a = DOMAIN b
  /\ \A m \in DOMAIN a : SameStatus(a[m], b[m])


\* C11: a waitForInstallation call that found the module installing and
\* ends with the timeout error never had the map say installing=false for
\* the module at a poll before the maximum wait.
C11_ChangeObservedBeforeTimeout == waiter.pc = "timeout" => ~waiter.changed

\* C12: waitForInstallation never waits longer than the maximum wait, and a
\* call that waited returns without the timeout error only if the map said
\* installing=false at one of its polls.
C12_TimeoutRaised ==
  /\ waiter.waited <= MaxWait
  /\ waiter.pc = "polling" => waiter.waited < MaxWait
  /\ (waiter.pc = "returned" /\ waiter.waited > 0) => waiter.changed

C12_Witness ==
  /\ waiter.pc = "timeout"
  /\ waiter.waited = MaxWait
  /\ ~waiter.changed
  /\ installStatus[waiter.module]["installing"]

\* C13: an installDependencies call without forceReinstall that follows a
\* successful call on the same module, with the same module info and a
\* non-empty node_modules, runs no install and no build command.
C13_SecondCallRunsNothing ==
  \A t \in TaskIds : execs[t].repeat => ~execs[t].ran /\ tasks[t].pc = "done"

C13_Witness ==
  \E t \in TaskIds :
    /\ execs[t].repeat
    /\ tasks[t].pc = "done"
    /\ tasks[t].info.needBuild
    /\ Field(installStatus[tasks[t].module], "version") = tasks[t].info.version

\* C14: one runInstall runs the install command at most maxRetries times,
\* a success ends it without another run, and the failure of the last
\* attempt ends it with error=true, installing=false, installed=false,
\* lastInstallTime and dependenciesHash undefined, and the error thrown.
C14_RunInstallRetries ==
  [][\A t \in TaskIds :
       /\ execs'[t].install <= MaxRetries
       /\ (tasks[t].pc = "install_exec" /\ tasks'[t].pc = "installed")
            => execs'[t] = execs[t]
       /\ execs'[t].install = execs[t].install + 1
            => /\ tasks[t].pc \in {"install_start", "install_exec"}
               /\ tasks'[t].pc = "install_exec"
               /\ tasks'[t].retries = execs[t].install
       /\ (tasks[t].pc = "install_exec" /\ tasks'[t].pc = "failed")
            => /\ execs[t].install = MaxRetries
               /\ LET s == installStatus'[tasks[t].module]
                  IN /\ s["error"] /\ ~s["installing"] /\ ~s["installed"]
                     /\ ~Has(s, "lastInstallTime")
                     /\ ~Has(s, "dependenciesHash")]_vars

C14_Witness ==
  \E t \in TaskIds :
    /\ tasks[t].pc = "failed"
    /\ tasks[t].retries = MaxRetries
    /\ execs[t].install = MaxRetries

\* C15: at the step that throws out of installDependencies the status of the
\* module is error=true, installing=false, installed=false; and a step of
\* runInstall or runBuild that records an error throws.
C15_ErrorMarkedBeforeRaised ==
  [][\A t \in TaskIds :
       /\ (tasks[t].pc # "failed" /\ tasks'[t].pc = "failed")
            => LET s == installStatus'[tasks[t].module]
               IN s["error"] /\ ~s["installing"] /\ ~s["installed"]
       /\ (/\ tasks[t].pc \in {"install_exec", "build_exec"}
           /\ tasks'[t] # tasks[t]
           /\ installStatus' # installStatus
           /\ installStatus'[tasks[t].module]["error"])
            => tasks'[t].pc = "failed"]_vars

C15_Witness ==
  \E t \in TaskIds :
    /\ tasks[t].pc = "failed"
    /\ tasks[t].retries = 0
    /\ tasks[t].info.needBuild
    /\ installStatus[tasks[t].module]["error"]

\* C16 as stated: checkModuleStatus follows the table of four rows: no status
\* or not installed, error, node_modules missing or empty, else no install
\* and a build exactly for a declared build step with a changed version.
C16_TableWithoutHashRow ==
  checkResult.called =>
    LET i == checkInput
        install == \/ ~i.hasStatus
                   \/ ~i.status["installed"]
                   \/ i.status["error"]
                   \/ ~i.nodeModulesOk
    IN /\ checkResult.needInstall = install
       /\ checkResult.needBuild =
            (~install /\ i.info.needBuild
               /\ Field(i.status, "version") # i.info.version)

\* C16 (amended): checkModuleStatus follows the table of five rows: no status
\* or not installed, error, a computed hash that is not empty and differs
\* from the stored one, node_modules missing or empty, each giving
\* needInstall=true and needBuild=false; else needInstall=false and
\* needBuild exactly for a declared build step with a changed version.
C16_DecisionTable ==
  checkResult.called =>
    LET i == checkInput
        install == \/ ~i.hasStatus
                   \/ ~i.status["installed"]
                   \/ i.status["error"]
                   \/ /\ i.info.dependenciesHash # ""
                      /\ Field(i.status, "dependenciesHash") # i.info.dependenciesHash
                   \/ ~i.nodeModulesOk
    IN /\ checkResult.needInstall = install
       /\ checkResult.needBuild =
            (~install /\ i.info.needBuild
               /\ Field(i.status, "version") # i.info.version)

C16_Witness ==
  /\ checkResult.called
  /\ checkInput.hasStatus
  /\ checkInput.status["installed"]
  /\ ~checkInput.status["error"]
  /\ checkInput.nodeModulesOk
  /\ checkInput.info.dependenciesHash = "h2"
  /\ Field(checkInput.status, "dependenciesHash") = "h1"
  /\ checkResult.needInstall

\* C17: for a status stored as installed without error, a computed hash
\* that differs from the stored one gives needInstall=true.
C17_HashChangeNeedsInstall ==
  (/\ checkResult.called
   /\ checkInput.hasStatus
   /\ checkInput.status["installed"]
   /\ ~checkInput.status["error"]
   /\ Field(checkInput.status, "dependenciesHash") # checkInput.info.dependenciesHash)
    => checkResult.needInstall

\* C18: the document of a completed save, loaded, gives a status map with
\* the modules of the map at the save and, for each, the same value in every
\* field; a missing file loads as the empty map.
C18_SaveLoadRoundTrip ==
  /\ statusFile.state = "complete" => SameStore(LoadInstallStatus(statusFile), statusFile.snapshot)
  /\ statusFile.state = "missing" => LoadInstallStatus(statusFile) = EmptyStore

C18_Witness ==
  /\ fileAtRestart = "complete"
  /\ \A t \in TaskIds : tasks[t].pc = "idle"
  /\ SameStore(installStatus, statusFile.snapshot)
  /\ \E m \in DOMAIN installStatus :
       /\ installStatus[m]["error"]
       /\ "dependenciesHash" \notin DOMAIN installStatus[m]
       /\ "dependenciesHash" \in DOMAIN statusFile.snapshot[m]
       /\ Field(installStatus[m], "version") = "v1"

\* C19: the file a dying process leaves behind is a complete document (or no
\* file at all), never a file opened for writing and not yet written.
C19_CrashLeavesCompleteDocument == fileAtRestart # "truncated"

\* C20: a plugin whose id is registered when loadPlugin reaches it, not in a
\* reload, is rejected: the registry keeps the instance it had for the id,
\* its size is the same, and no schedule was created by the newcomer.
C20_DuplicateIdRejected ==
  \A k \in 1..Len(lastLoad.log) :
    LET e == lastLoad.log[k]
    IN (e.holder # 0 /\ ~lastLoad.reload) =>
         /\ e.outcome = "rejected"
         /\ e.id \in DOMAIN plugins
         /\ plugins[e.id] = e.holder
         /\ Cardinality(DOMAIN plugins) = e.size
         /\ {s \in schedules \ lastLoad.schedulesBefore : s.by = e.inst} = {}

C20_Witness ==
  /\ Len(lastLoad.log) = 2
  /\ lastLoad.log[2].outcome = "rejected"
  /\ lastLoad.log[2].holder \notin {0, lastLoad.log[2].inst}
  /\ plugins["p"] = lastLoad.log[2].holder

-----------------------------------------------------------------------------
(* Properties of the install step *)

\* C28: while the install command of runInstall runs, from its start until
\* runInstall records the success or the failure, the status of the module
\* in the store has installing = true, whatever the status was before the
\* call.
C28_InstallingWhileInstallRuns ==
  \A t \in TaskIds :
    tasks[t].pc = "install_exec" =>
      /\ tasks[t].module \in DOMAIN installStatus
      /\ installStatus[tasks[t].module]["installing"]

\* C29: a call of installDependencies with forceReinstall calls runInstall
\* at most once and runBuild at most once, and when it returns it has called
\* runInstall once and runBuild once if the module declares a build, never
\* otherwise.
C29_ForcedPassRunsOnce ==
  \A t \in TaskIds :
    execs[t].forced =>
      /\ execs[t].runInstalls <= 1
      /\ execs[t].runBuilds <= 1
      /\ tasks[t].pc = "done" =>
           /\ execs[t].runInstalls = 1
           /\ execs[t].runBuilds = IF tasks[t].info.needBuild THEN 1 ELSE 0

-----------------------------------------------------------------------------
(* Properties of the schedules *)

\* C25: whenever no load is in flight, the schedules of every registered
\* plugin id are those of the registered plugin instance, one job for each
\* of its schedule triggers: no job of a replaced instance is left and no
\* job is missing.
C25_OneJobPerScheduleTrigger ==
  pendingFiles = {} =>
    \A id \in DOMAIN plugins :
      {s \in schedules : s.from = id} =
        {[from |-> id, by |-> plugins[id], trigger |-> k] :
           k \in 1..SchedulesOf(plugins[id])}

\* C27: a plugin file whose load timer fired during the last loadPlugins has
\* none of its plugins in the registry, also after its import has completed.
C27_TimedOutPluginSkipped ==
  \A file \in timedOut :
    \A id \in DOMAIN plugins :
      plugins[id] \notin {Exports(file).list[i] : i \in 1..Len(Exports(file).list)}

-----------------------------------------------------------------------------
(* Properties of the order of the plugins *)

HasAbortingMatch(p, m) ==
  \E i \in 1..Len(messageTriggers[p]) :
    Matches(messageTriggers[p][i], m) /\ messageTriggers[p][i].abort

\* C30: when every registered plugin has an aborting trigger that matches
\* the message of the dispatch, the plugin the dispatcher offers the message
\* to first is the one of highest priority, and at the end of the dispatch
\* no handler of another plugin has been invoked.
C30_HigherPriorityPluginFirst ==
  (offered # <<>> /\ \A p \in PluginIds : HasAbortingMatch(p, msg)) =>
    /\ \A q \in PluginIds : PluginPriority(q) <= PluginPriority(offered[1])
    /\ botPc = "done" =>
         \A i \in 1..Len(invoked) :
           \A q \in PluginIds : PluginPriority(q) <= PluginPriority(invoked[i][1])

-----------------------------------------------------------------------------
(* Properties of the notice and connect events *)

\* C23: when Bot.onNotice delivers a notice event and some trigger
\* registered through addTrigger has a scope that covers its type (the type
\* itself or the wildcard "notice"), the handler of such a trigger is
\* invoked; and every handler invoked belongs to a trigger whose scope
\* covers the type.
C23_ScopedNoticeTriggerInvoked ==
  lastNotice.type # "none" =>
    /\ lastNotice.scoped # {} => lastNotice.invoked # <<>>
    /\ \A i \in 1..Len(lastNotice.invoked) : lastNotice.invoked[i] \in lastNotice.scoped

\* C24: every connect trigger of every registered plugin has had its
\* handler invoked once for each connect event since it was registered,
\* whatever the other triggers and plugins did; and the handlers that have
\* not settled are handlers that were invoked.
C24_EveryConnectTriggerOncePerEvent ==
  /\ \A p \in Registered :
       \A k \in 1..Len(connectTriggers[p]) :
         connectTriggers[p][k].calls = connects - connectTriggers[p][k].since
  /\ \A h \in connectRunning :
       /\ h[2] <= Len(connectTriggers[h[1]])
       /\ connectTriggers[h[1]][h[2]].since < h[3]

\* The second connect event was dispatched while handlers of the first one
\* were still running; every plugin has two connect triggers, one of them
\* registered between the two events.
C24_Witness ==
  /\ connects = MaxConnects
  /\ \A p \in PluginIds : Len(connectTriggers[p]) = MaxConnectTriggers
  /\ \E p \in PluginIds : connectTriggers[p][2].since = 1
  /\ \E p \in PluginIds : connectTriggers[p][1].calls = 2
  /\ \E h \in connectRunning : h[3] = 1
  /\ \A p \in PluginIds : <<p, 2, 2>> \in connectRunning

-----------------------------------------------------------------------------
(* Properties of Client.run *)

\* C26: when the loading of Client.run has ended, with or without a failed
\* loader, plugin loading, adapter loading and extension auto-import have
\* all been called, and every registered on-ready handler has been called,
\* in registration order.
C26_LoadersIsolated ==
  run.pc \in {"rejected", "ready"} =>
    /\ run.ran = {Loaders[i] : i \in 1..Len(Loaders)}
    /\ Len(run.ready) = IF run.pc = "ready" THEN run.registered ELSE onReadyHandlers
    /\ \A k \in 1..Len(run.ready) : run.ready[k] = k

-----------------------------------------------------------------------------
(* Properties of importExtension *)

\* C21: an importExtension call that names a module an earlier call has
\* imported returns as soon as it is called, with the cached module, and
\* has called neither waitForInstallation nor getInstallStatus nor
\* installDependencies; no command runs on its behalf.
C21_CachedImportIsFree ==
  importer.hit =>
    /\ importer.pc = "returned"
    /\ importer.result = "module"
    /\ ~importer.waited /\ ~importer.checked /\ ~importer.installs
    /\ tasks[1].pc = "idle" /\ ~execs[1].ran
    /\ importer.module \in moduleCache

\* A forced import of a cached module has returned while the install
\* command of another caller runs on the same module
C21_Witness ==
  /\ importer.hit
  /\ importer.force
  /\ importer.pc = "returned"
  /\ tasks[2].pc = "install_exec"
  /\ tasks[2].module = importer.module

\* C22: an importExtension call that has failed (the wait for an install in
\* flight timed out, installDependencies raised, or the dynamic import
\* rejected) has called gracefulExit(1), has returned no module and has left
\* the cache without an entry for the module; every failure calls
\* gracefulExit.
C22_FailedImportExits ==
  /\ gracefulExitCalls = importer.failures
  /\ importer.pc = "failed" =>
       /\ importer.cause \in {"wait", "install", "import"}
       /\ exiting /\ exitArg = "1"
       /\ importer.result = "undefined"
       /\ importer.module \notin moduleCache

\* The wait for the install of another caller has timed out
C22_Witness ==
  /\ importer.pc = "failed"
  /\ importer.cause = "wait"
  /\ waiter.waited = MaxWait
  /\ tasks[2].pc = "install_exec"

-----------------------------------------------------------------------------
(* Claims on the session timers *)

\* the timeout message a step sends, if it sends one
NewTimeoutReply == timeoutReplies'[Len(timeoutReplies')]

C36_TimerRemovesOnlyOwnSession ==
  \A i \in DOMAIN timeoutReplies :
    timeoutReplies[i].removed # NoSession =>
      timeoutReplies[i].removed.timeout = timeoutReplies[i].timer

\* C33: for a message without target, Plugin.onMessage goes on to the sorted
\* trigger loop: no session is found and no session handler is called, and
\* the call only rejects when a handler invoked by the trigger loop rejects;
\* Plugin.startInteract for such a message leaves the session map and the
\* timers unchanged.
C33_NoTargetFallsThrough ==
  /\ [](msg.target.type = "none" /\ offered # <<>> =>
          /\ delivered = <<>>
          /\ hadSession = {}
          /\ outcome = "raised" => invoked # <<>>)
  /\ [][msg.target.type = "none" /\ botPc = "plugin" /\ botPc' # "plugin" =>
          botPc' = "trigger" /\ ti' = 1]_vars
  /\ [][\A m \in SessionMessages, h \in 1..MaxSessionHandlers, s \in TimeoutSeconds :
          getInteractKey(m) = NoKey /\ StartInteract(1, m, h, s) =>
            UNCHANGED <<interactions, timers, nextTimer>>]_vars

\* a message without target reached a trigger handler while a session is stored
C33_Witness ==
  /\ msg.target.type = "none"
  /\ botPc = "done"
  /\ invoked # <<>>
  /\ \E k \in AllKeys : interactions[1][k] # NoSession

-----------------------------------------------------------------------------
(* Claims on the scope filter *)

\* the delivery channel of a message, as an event scope
Channel(m) ==
  CASE m.target.type = "person" -> "message.private"
    [] m.target.type = "group" -> "message.group"
    [] m.target.type = "guild" -> "message.guild"
    [] OTHER -> "none"

InSeq(e, seq) == \E i \in DOMAIN seq : seq[i] = e

\* C34: handle() evaluates the predicate of a trigger exactly when the scope
\* filter passes: always for a trigger whose scope set holds "message",
\* otherwise only when the channel of the message is in the scope set; when
\* the scope filter fails the predicate is not evaluated, the handler is not
\* invoked and handle() does not return true.
C34_ScopeBeforePredicate ==
  /\ \A i \in DOMAIN evaluated :
       LET e == evaluated[i]
           t == TriggerById(e[1], e[2])
           inScope == "message" \in t.events \/ Channel(msg) \in t.events
       IN /\ InSeq(e, tested) <=> inScope
          /\ ~inScope => ~InSeq(e, invoked) /\ returnedTrue # e
  /\ \A i \in DOMAIN invoked : InSeq(invoked[i], tested)

\* a private message: one trigger was stopped by its scope set before the
\* trigger registered for every message was tested and invoked
C34_Witness ==
  /\ botPc = "done"
  /\ Len(evaluated) = 2
  /\ ~InSeq(evaluated[1], tested)
  /\ "message" \in TriggerById(evaluated[2][1], evaluated[2][2]).events
  /\ InSeq(evaluated[2], invoked)

-----------------------------------------------------------------------------
(* Claims on sessions across plugins *)

\* C38: a message whose key has a session of plugin P when Bot.onMessage is
\* called, and still has it when the call has ended, was delivered to the
\* session handler of P, whatever the other plugins registered.
C38_SessionAlwaysReached ==
  botPc = "done" =>
    \A p \in keyHolders :
      HasInteraction(p, msg) => DeliveredOf(p) # <<>>

-----------------------------------------------------------------------------
(* Claims on the status flags *)

TrueFlags(status) ==
  {f \in {"installing", "installed", "error"} : status[f]}

\* C35: in every status that runInstall, runBuild, installDependencies and
\* clearExtensionInstallStatus leave in the map, at most one of installing,
\* installed and error is true; a status with error=true has installed=false.
C35_AtMostOneFlag ==
  \A m \in DOMAIN installStatus :
    /\ Cardinality(TrueFlags(installStatus[m])) <= 1
    /\ installStatus[m]["error"] => ~installStatus[m]["installed"]

\* a build failure recorded on a module whose install had succeeded, while
\* another call runs its install command
C35_Witness ==
  \E m \in DOMAIN installStatus, t \in TaskIds :
    /\ installStatus[m]["error"]
    /\ Field(installStatus[m], "lastInstallTime") = Now
    /\ tasks[t].pc = "install_exec" /\ tasks[t].module = m

-----------------------------------------------------------------------------
(* Claims on setInstallStatus *)

\* C32: after setInstallStatus(m, patch) the record of m holds the fields of
\* the patch with the values of the patch and every other field it held
\* before with its previous value, and nothing else; the records of all
\* other module directories are the ones the map held before.
C32_SetInstallStatusMerges ==
  lastSet.called =>
    LET m == lastSet.module
        patch == lastSet.patch
        before == lastSet.before
        old == IF m \in DOMAIN before THEN before[m] ELSE [f \in {} |-> FALSE]
    IN /\ DOMAIN installStatus = DOMAIN before \cup {m}
       /\ \A k \in DOMAIN before \ {m} : installStatus[k] = before[k]
       /\ DOMAIN installStatus[m] = DOMAIN old \cup DOMAIN patch
       /\ \A f \in DOMAIN patch : installStatus[m][f] = patch[f]
       /\ \A f \in DOMAIN old \ DOMAIN patch : installStatus[m][f] = old[f]

\* the call named fewer fields than the record held, and the map held a
\* record of another directory
C32_Witness ==
  /\ lastSet.called
  /\ lastSet.module \in DOMAIN lastSet.before
  /\ DOMAIN lastSet.before[lastSet.module] \ DOMAIN lastSet.patch # {}
  /\ DOMAIN lastSet.before \ {lastSet.module} # {}

-----------------------------------------------------------------------------
(* Claims on the order of the saves *)

\* C39: once every writeFile started by setInstallStatus has completed, the
\* document in the status file is the one of the status map in memory.
C39_LastWriteWins ==
  (writes = {} /\ statusFile.state = "complete") =>
    SameStore(LoadInstallStatus(statusFile), installStatus)

-----------------------------------------------------------------------------
(* Claims on clearModuleCache *)

\* C40: an importExtension call for a module that clearModuleCache was called
\* for (by name, or for every extension) since the cache last stored it is
\* not answered from the cache: it reads the install status and calls
\* waitForInstallation or installDependencies.
C40_ClearedModuleIsImportedAgain ==
  importer.afterClear =>
    /\ importer.checked
    /\ importer.waited \/ importer.installs

-----------------------------------------------------------------------------
(* Claims on a status left installing *)

\* C37: an importExtension call that finds installing=true in the stored
\* status while no install or build is in flight does not stay blocked: when
\* its wait is over it has gone on to installDependencies, and it has not
\* failed.
C37_StaleInstallingDoesNotBlock ==
  (importer.stale /\ importer.pc # "waiting") =>
    /\ importer.installs
    /\ importer.pc # "failed"

====
